---- MODULE Spec2Model ----
(***************************************************************************)
(* A model of xfl2svg's shape conversion: the number codec and tokenizer   *)
(* of the XFL edge format (shape/edge.py), the point-list parser           *)
(* (edge_format_to_point_lists) and the PathGraph/ShapeGraph cycle cover   *)
(* with its SVG emission (shape/shape.py).                                 *)
(*                                                                         *)
(* Strings the code indexes are sequences of one-character strings.        *)
(* Floats are exact rationals <<n, d>> in lowest terms with d > 0.         *)
(***************************************************************************)
EXTENDS Integers, Sequences, FiniteSets, TLC

VARIABLES
    \* parse_number / EDGE_TOKENIZER driver
    num_pc, num_in, num_tokens, num_out,
    \* edge_format_to_point_lists: the generator's frame and what it yielded
    edge_pc, edges, tokens, pos, point_list, bounding_box, prev_point,
    yielded, edge_err,
    \* xfl_domshape_to_svg: the input, the ShapeGraph, the frames of get_fills,
    \* covering_cycles and get_cycle, and what shape_graph_to_svg collected
    shape_pc, domshape, mask, edge_i, shape, fill_i, pending, cycles, root,
    parents, frontier, fill_paths, stroke_i, stroke_paths, bbox, shape_err,
    warned,
    \* one call of a function of util.py or shape.py: its name, its arguments
    \* and what it returned
    fn, args, ret,
    \* two calls of xfl_domshape_to_svg whose steps alternate: which of the
    \* two is running, and the locals and objects of the one that waits
    running, parked

numVars == <<num_pc, num_in, num_tokens, num_out>>
edgeVars == <<edge_pc, edges, tokens, pos, point_list, bounding_box, prev_point,
              yielded, edge_err>>
shapeVars == <<shape_pc, domshape, mask, edge_i, shape, fill_i, pending, cycles,
               root, parents, frontier, fill_paths, stroke_i, stroke_paths, bbox,
               shape_err, warned>>
callVars == <<fn, args, ret>>
pairVars == <<running, parked>>
vars == <<numVars, edgeVars, shapeVars, callVars, pairVars>>

(***************************************************************************)
(* Python values                                                           *)
(***************************************************************************)
\* a call that returned v
Ok(v) == [ok |-> TRUE, err |-> "", val |-> v]
\* a call that raised the exception e
Err(e) == [ok |-> FALSE, err |-> e, val |-> <<0, 1>>]

RECURSIVE GCD(_, _)
GCD(a, b) == IF b = 0 THEN a ELSE GCD(b, a % b)

\* the rational n/d (d > 0) in lowest terms
Rat(n, d) == LET g == GCD(d, n % d) IN <<n \div g, d \div g>>

RAdd(a, b) == Rat(a[1] * b[2] + b[1] * a[2], a[2] * b[2])
RSub(a, b) == Rat(a[1] * b[2] - b[1] * a[2], a[2] * b[2])
RMul(a, b) == Rat(a[1] * b[1], a[2] * b[2])
\* a / b for b # 0
RDiv(a, b) == IF b[1] > 0 THEN Rat(a[1] * b[2], a[2] * b[1])
              ELSE Rat(-(a[1] * b[2]), -(a[2] * b[1]))
RLess(a, b) == a[1] * b[2] < b[1] * a[2]
RMin(a, b) == IF RLess(b, a) THEN b ELSE a
RMax(a, b) == IF RLess(a, b) THEN b ELSE a
RInt(n) == <<n, 1>>

\* None
None == <<>>

RECURSIVE Pow(_, _)
Pow(b, e) == IF e = 0 THEN 1 ELSE b * Pow(b, e - 1)

RECURSIVE Repeat(_, _)
Repeat(c, n) == IF n <= 0 THEN <<>> ELSE <<c>> \o Repeat(c, n - 1)

(***************************************************************************)
(* EDGE_TOKENIZER (edge.py:78-85): re.findall over the edge string         *)
(***************************************************************************)
DigitChars == {"0", "1", "2", "3", "4", "5", "6", "7", "8", "9"}
UpperChars == {"A", "B", "C", "D", "E", "F", "G", "H", "I", "J", "K", "L", "M",
               "N", "O", "P", "Q", "R", "S", "T", "U", "V", "W", "X", "Y", "Z"}
\* the class [A-Z0-9] of the hex alternative
HexClass == DigitChars \cup UpperChars
\* the class [!|/[\]]
CommandChars == {"!", "|", "/", "[", "]"}

\* length of the longest run of characters of class cls in s from index i
RECURSIVE RunLen(_, _, _)
RunLen(s, i, cls) ==
    IF i <= Len(s) /\ s[i] \in cls THEN 1 + RunLen(s, i + 1, cls) ELSE 0

\* length matched at i by (?<!S)-?\d+(?:\.\d+)? , 0 when it does not match
DecimalMatch(s, i) ==
    IF i > 1 /\ s[i - 1] = "S" THEN 0
    ELSE LET j == IF s[i] = "-" THEN i + 1 ELSE i
             n == RunLen(s, j, DigitChars)
             k == j + n
             m == IF k <= Len(s) /\ s[k] = "." THEN RunLen(s, k + 1, DigitChars) ELSE 0
         IN IF n = 0 THEN 0
            ELSE IF m > 0 THEN (k + 1 + m) - i ELSE k - i

\* length matched at i by \#[A-Z0-9]+\.[A-Z0-9]+ , 0 when it does not match
HexMatch(s, i) ==
    IF s[i] # "#" THEN 0
    ELSE LET n == RunLen(s, i + 1, HexClass)
             k == i + 1 + n
             m == IF k <= Len(s) /\ s[k] = "." THEN RunLen(s, k + 1, HexClass) ELSE 0
         IN IF n = 0 \/ m = 0 THEN 0 ELSE (k + 1 + m) - i

\* findall from index i: the alternatives are tried in order at each position,
\* and a character no alternative matches is skipped
RECURSIVE Scan(_, _)
Scan(s, i) ==
    IF i > Len(s) THEN <<>>
    ELSE IF s[i] \in CommandChars THEN <<SubSeq(s, i, i)>> \o Scan(s, i + 1)
    ELSE IF DecimalMatch(s, i) > 0
         THEN <<SubSeq(s, i, i + DecimalMatch(s, i) - 1)>> \o Scan(s, i + DecimalMatch(s, i))
    ELSE IF HexMatch(s, i) > 0
         THEN <<SubSeq(s, i, i + HexMatch(s, i) - 1)>> \o Scan(s, i + HexMatch(s, i))
    ELSE Scan(s, i + 1)

EDGE_TOKENIZER(s) == Scan(s, 1)

(***************************************************************************)
(* parse_number (edge.py:96-108)                                           *)
(***************************************************************************)
\* widths of "{:>06}{:<02}"
IntWidth == 6
FracWidth == 2

HexVal == [c \in {"0", "1", "2", "3", "4", "5", "6", "7", "8", "9",
                  "A", "B", "C", "D", "E", "F", "a", "b", "c", "d", "e", "f"} |->
             CASE c = "0" -> 0 [] c = "1" -> 1 [] c = "2" -> 2 [] c = "3" -> 3
               [] c = "4" -> 4 [] c = "5" -> 5 [] c = "6" -> 6 [] c = "7" -> 7
               [] c = "8" -> 8 [] c = "9" -> 9
               [] c \in {"A", "a"} -> 10 [] c \in {"B", "b"} -> 11
               [] c \in {"C", "c"} -> 12 [] c \in {"D", "d"} -> 13
               [] c \in {"E", "e"} -> 14 [] c \in {"F", "f"} -> 15]

\* str.split(sep): the pieces of s between the occurrences of sep
RECURSIVE Split(_, _)
Split(s, sep) ==
    LET n == RunLen(s, 1, {c \in {s[i] : i \in 1..Len(s)} : c # sep})
    IN IF n = Len(s) THEN <<s>>
       ELSE <<SubSeq(s, 1, n)>> \o Split(SubSeq(s, n + 2, Len(s)), sep)

\* a variant of PadLeft that fills on the right, as "{:<0w}" would
PadLeft_fill_right(s, w) == s \o Repeat("0", w - Len(s))

\* "{:>0w}": right-align in width w, filling with "0" on the left
PadLeft(s, w) == Repeat("0", w - Len(s)) \o s
\* "{:<0w}": left-align in width w, filling with "0" on the right
PadRight(s, w) == s \o Repeat("0", w - Len(s))

\* bytes.fromhex: pairs of hex digits to bytes, most significant first
RECURSIVE FromHex(_)
FromHex(h) ==
    IF Len(h) = 0 THEN <<>>
    ELSE <<16 * HexVal[h[1]] + HexVal[h[2]]>> \o FromHex(SubSeq(h, 3, Len(h)))

\* acc followed by the bytes b, most significant first
RECURSIVE Horner(_, _)
Horner(acc, b) == IF Len(b) = 0 THEN acc ELSE Horner(256 * acc + b[1], Tail(b))

\* int.from_bytes(b, "big", signed=True): two's complement over 8*Len(b) bits,
\* the first byte carrying the sign
FromBytesSigned(b) ==
    IF Len(b) = 0 THEN 0
    ELSE Horner(IF b[1] >= 128 THEN b[1] - 256 ELSE b[1], Tail(b))

\* value of a run of decimal digits
RECURSIVE DecVal(_)
DecVal(s) ==
    IF Len(s) = 0 THEN 0 ELSE 10 * DecVal(SubSeq(s, 1, Len(s) - 1)) + HexVal[s[Len(s)]]

\* float(num) for the literals -?\d+(\.\d+)? ; anything else the tokenizer
\* can produce (a command character) raises ValueError
ParseFloat(num) ==
    LET body == IF num[1] = "-" THEN Tail(num) ELSE num
        parts == Split(body, ".")
        digits == IF Len(parts) = 2 THEN parts[1] \o parts[2] ELSE parts[1]
        scale == IF Len(parts) = 2 THEN Pow(10, Len(parts[2])) ELSE 1
        wellFormed == /\ Len(parts) \in {1, 2}
                      /\ \A i \in 1..Len(parts) :
                            /\ Len(parts[i]) > 0
                            /\ \A j \in 1..Len(parts[i]) : parts[i][j] \in DigitChars
    IN IF ~wellFormed THEN Err("ValueError")
       ELSE Ok(Rat((IF num[1] = "-" THEN -1 ELSE 1) * DecVal(digits), scale))

RatDiv(r, k) == Rat(r[1], r[2] * k)

\* a variant of parse_number that leaves out the division by 256
parse_number_no_fixed_point(num) ==
    IF num[1] = "#"
    THEN LET parts == Split(Tail(num), ".")
             hex_num == PadLeft(parts[1], IntWidth) \o PadRight(parts[2], FracWidth)
         IN IF Len(parts) < 2 THEN Err("IndexError")
            ELSE IF \/ Len(hex_num) % 2 = 1
                    \/ \E i \in 1..Len(hex_num) : hex_num[i] \notin DOMAIN HexVal
                 THEN Err("ValueError")
            ELSE Ok(Rat(FromBytesSigned(FromHex(hex_num)), 20))
    ELSE LET f == ParseFloat(num)
         IN IF f.ok THEN Ok(RatDiv(f.val, 20)) ELSE f

parse_number(num) ==
    IF num[1] = "#"
    THEN LET parts == Split(Tail(num), ".")
             hex_num == PadLeft(parts[1], IntWidth) \o PadRight(parts[2], FracWidth)
         IN IF Len(parts) < 2 THEN Err("IndexError")
            ELSE IF \/ Len(hex_num) % 2 = 1
                    \/ \E i \in 1..Len(hex_num) : hex_num[i] \notin DOMAIN HexVal
                 THEN Err("ValueError")
            ELSE Ok(Rat(FromBytesSigned(FromHex(hex_num)), 256 * 20))
    ELSE LET f == ParseFloat(num)
         IN IF f.ok THEN Ok(RatDiv(f.val, 20)) ELSE f

(***************************************************************************)
(* Geometry: bounding boxes (edge.py:111-159, util.py:54-126)              *)
(* A point is <<x, y>>, a box <<minX, minY, maxX, maxY>>, None is <<>>.    *)
(***************************************************************************)
line_bounding_box(p1, p2) ==
    <<RMin(p1[1], p2[1]), RMin(p1[2], p2[2]), RMax(p1[1], p2[1]), RMax(p1[2], p2[2])>>

\* edge.py:115-118; the last term is p3, not t * p3
quadratic_bezier_edge(p1, p2, p3, t) ==
    LET u == RSub(RInt(1), t)
        x == RAdd(RMul(u, RAdd(RMul(u, p1[1]), RMul(t, p2[1]))),
                  RMul(t, RAdd(RMul(u, p2[1]), p3[1])))
        y == RAdd(RMul(u, RAdd(RMul(u, p1[2]), RMul(t, p2[2]))),
                  RMul(t, RAdd(RMul(u, p2[2]), p3[2])))
    IN <<x, y>>

\* util.py:58-61
quadratic_bezier_util(p1, p2, p3, t) ==
    LET u == RSub(RInt(1), t)
        x == RAdd(RMul(u, RAdd(RMul(u, p1[1]), RMul(t, p2[1]))),
                  RMul(t, RAdd(RMul(u, p2[1]), RMul(t, p3[1]))))
        y == RAdd(RMul(u, RAdd(RMul(u, p1[2]), RMul(t, p2[2]))),
                  RMul(t, RAdd(RMul(u, p2[2]), RMul(t, p3[2]))))
    IN <<x, y>>

\* one axis of quadratic_critical_points: math.inf when the denominator is 0
CriticalT(a, b, c) ==
    LET denom == RAdd(RSub(a, RMul(RInt(2), b)), c)
    IN IF denom[1] = 0 THEN [inf |-> TRUE, t |-> RInt(0)]
       ELSE [inf |-> FALSE, t |-> RDiv(RSub(a, b), denom)]

quadratic_critical_points(p1, p2, p3) ==
    <<CriticalT(p1[1], p2[1], p3[1]), CriticalT(p1[2], p2[2], p3[2])>>

\* t > 0 and t < 1
Interior(c) == ~c.inf /\ RLess(RInt(0), c.t) /\ RLess(c.t, RInt(1))

RMin4(a, b, c, d) == RMin(RMin(a, b), RMin(c, d))
RMax4(a, b, c, d) == RMax(RMax(a, b), RMax(c, d))

\* the return value of quadratic_bounding_box from its four points
BoxOfFour(p1, p2, p3, p4) ==
    <<RMin4(p1[1], p2[1], p3[1], p4[1]), RMin4(p1[2], p2[2], p3[2], p4[2]),
      RMax4(p1[1], p2[1], p3[1], p4[1]), RMax4(p1[2], p2[2], p3[2], p4[2])>>

\* p3 and p4 of edge.py's quadratic_bounding_box
CritPointEdge(p1, control, p2, c) ==
    IF Interior(c) THEN quadratic_bezier_edge(p1, control, p2, c.t) ELSE p1

\* edge.py:137-159
quadratic_bounding_box_edge(p1, control, p2) ==
    BoxOfFour(p1, p2,
              CritPointEdge(p1, control, p2, quadratic_critical_points(p1, control, p2)[1]),
              CritPointEdge(p1, control, p2, quadratic_critical_points(p1, control, p2)[2]))

\* p3 and p4 of util.py's quadratic_bounding_box
CritPointUtil(p1, control, p2, c) ==
    IF Interior(c) THEN quadratic_bezier_util(p1, control, p2, c.t) ELSE p1

\* util.py:80-102
quadratic_bounding_box_util(p1, control, p2) ==
    BoxOfFour(p1, p2,
              CritPointUtil(p1, control, p2, quadratic_critical_points(p1, control, p2)[1]),
              CritPointUtil(p1, control, p2, quadratic_critical_points(p1, control, p2)[2]))

\* merge_bounding_boxes that takes the minimum of the right edges
merge_bounding_boxes_min_right(original, addition) ==
    IF addition = None THEN original
    ELSE IF original = None THEN addition
    ELSE <<RMin(original[1], addition[1]), RMin(original[2], addition[2]),
           RMin(original[3], addition[3]), RMax(original[4], addition[4])>>

merge_bounding_boxes(original, addition) ==
    IF addition = None THEN original
    ELSE IF original = None THEN addition
    ELSE <<RMin(original[1], addition[1]), RMin(original[2], addition[2]),
           RMax(original[3], addition[3]), RMax(original[4], addition[4])>>

expanding_bounding_box(box, width) ==
    LET h == RDiv(width, RInt(2))
    IN <<RSub(box[1], h), RSub(box[2], h), RAdd(box[3], h), RAdd(box[4], h)>>

(***************************************************************************)
(* edge_format_to_point_lists (edge.py:214-272)                            *)
(***************************************************************************)
\* an entry of a point list: f"{x} {y}", or the 1-tuple of it for a control
\* point; the formatted string is kept as the pair of floats it prints
PlainEntry(p) == [pt |-> p, ctrl |-> FALSE]
ControlEntry(p) == [pt |-> p, ctrl |-> TRUE]

\* next_point() once x is parsed and y = parse_number(next(tokens)) returned
NextPointY(i, x, y) ==
    IF ~y.ok THEN [st |-> y.err, pt |-> <<>>, pos |-> i + 2]
    ELSE [st |-> "ok", pt |-> <<x.val, y.val>>, pos |-> i + 2]

\* next_point() once x = parse_number(next(tokens)) returned
NextPointX(toks, i, x) ==
    IF ~x.ok THEN [st |-> x.err, pt |-> <<>>, pos |-> i + 1]
    ELSE IF i + 1 > Len(toks) THEN [st |-> "StopIteration", pt |-> <<>>, pos |-> i + 1]
    ELSE NextPointY(i, x, parse_number(toks[i + 1]))

\* next_point() with the iterator at index i: two parse_number(next(tokens)),
\* the first failure ending the call
next_point(toks, i) ==
    IF i > Len(toks) THEN [st |-> "StopIteration", pt |-> <<>>, pos |-> i]
    ELSE NextPointX(toks, i, parse_number(toks[i]))

\* an exception leaves the generator: a StopIteration raised outside the try
\* block surfaces as RuntimeError
EdgeRaise(e) ==
    /\ edge_pc' = "raised"
    /\ edge_err' = (IF e = "StopIteration" THEN "RuntimeError" ELSE e)

\* yield point_list, bounding_box
Yield == yielded' = Append(yielded, [point_list |-> point_list,
                                     bounding_box |-> bounding_box])

\* prev_point = next_point() before the loop
EdgeFirstPoint(first) ==
    IF first.st # "ok"
    THEN EdgeRaise(first.st) /\ pos' = first.pos /\ UNCHANGED prev_point
    ELSE /\ edge_pc' = "loop"
         /\ pos' = first.pos
         /\ prev_point' = first.pt
         /\ UNCHANGED edge_err

\* the generator from its first line to the head of the loop, given the tokens
EdgeBegin(toks) ==
    /\ tokens' = toks
    /\ IF Len(toks) = 0
       THEN EdgeRaise("StopIteration") /\ UNCHANGED <<pos, prev_point>>
       ELSE IF toks[1] # <<"!">>
       THEN EdgeRaise("AssertionError") /\ pos' = 2 /\ UNCHANGED prev_point
       ELSE EdgeFirstPoint(next_point(toks, 2))

\* the generator from its first line to the head of the loop
EdgeStart ==
    /\ edge_pc = "start"
    /\ EdgeBegin(EDGE_TOKENIZER(edges))
    /\ UNCHANGED <<edges, point_list, bounding_box, yielded>>
    /\ UNCHANGED <<numVars, shapeVars, callVars, pairVars>>

\* except StopIteration: the last yield, after which the generator returns
EdgeStop ==
    /\ Yield
    /\ bounding_box' = None
    /\ edge_pc' = "done"
    /\ UNCHANGED <<point_list, prev_point, edge_err>>

\* a variant of EdgeMoveTo that never ends the segment at a moveto
EdgeMoveTo_no_yield(curr) ==
    /\ pos' = curr.pos
    /\ IF curr.pt # prev_point
       THEN prev_point' = curr.pt /\ UNCHANGED <<yielded, bounding_box>>
       ELSE UNCHANGED <<yielded, prev_point, bounding_box>>
    /\ UNCHANGED <<point_list, edge_pc, edge_err>>

\* Move to
EdgeMoveTo(curr) ==
    /\ pos' = curr.pos
    /\ IF curr.pt # prev_point
       THEN /\ Yield
            /\ prev_point' = curr.pt
            /\ bounding_box' = None
       ELSE UNCHANGED <<yielded, prev_point, bounding_box>>
    /\ UNCHANGED <<point_list, edge_pc, edge_err>>

\* Line to
EdgeLineTo(curr) ==
    /\ pos' = curr.pos
    /\ point_list' = point_list \o <<PlainEntry(prev_point), PlainEntry(curr.pt)>>
    /\ bounding_box' = merge_bounding_boxes(bounding_box,
                            line_bounding_box(prev_point, curr.pt))
    /\ prev_point' = curr.pt
    /\ UNCHANGED <<yielded, edge_pc, edge_err>>

\* Quad to, end = next_point() after the control point curr
EdgeQuadTo(curr, end) ==
    IF end.st = "StopIteration"
    THEN EdgeStop /\ pos' = end.pos
    ELSE IF end.st # "ok"
    THEN /\ EdgeRaise(end.st) /\ pos' = end.pos
         /\ UNCHANGED <<point_list, bounding_box, prev_point, yielded>>
    ELSE /\ pos' = end.pos
         /\ point_list' = point_list \o <<PlainEntry(prev_point),
                                          ControlEntry(curr.pt),
                                          PlainEntry(end.pt)>>
         /\ bounding_box' = merge_bounding_boxes(bounding_box,
                 quadratic_bounding_box_edge(prev_point, curr.pt, end.pt))
         /\ prev_point' = end.pt
         /\ UNCHANGED <<yielded, edge_pc, edge_err>>

\* the loop body after command = next(tokens) and curr = next_point():
\* "!" moves, "|" and "/" draw a line, every other token (a number included)
\* is taken as a quadto
EdgeDispatch(command, curr) ==
    IF curr.st = "StopIteration"
    THEN EdgeStop /\ pos' = curr.pos
    ELSE IF curr.st # "ok"
    THEN /\ EdgeRaise(curr.st) /\ pos' = curr.pos
         /\ UNCHANGED <<point_list, bounding_box, prev_point, yielded>>
    ELSE IF command = <<"!">> THEN EdgeMoveTo(curr)
    ELSE IF command \in {<<"|">>, <<"/">>} THEN EdgeLineTo(curr)
    ELSE EdgeQuadTo(curr, next_point(tokens, curr.pos))

\* one iteration of the while loop
EdgeCommand ==
    /\ edge_pc = "loop"
    /\ IF pos > Len(tokens)
       THEN EdgeStop /\ UNCHANGED pos
       ELSE EdgeDispatch(tokens[pos], next_point(tokens, pos + 1))
    /\ UNCHANGED <<edges, tokens>>
    /\ UNCHANGED <<numVars, shapeVars, callVars, pairVars>>

(***************************************************************************)
(* Point lists of shape.py: a path is a tuple of entries, a plain point    *)
(* (x, y) or a control point ((x, y),)                                     *)
(***************************************************************************)
Pt(x, y) == PlainEntry(<<RInt(x), RInt(y)>>)
Ctl(x, y) == ControlEntry(<<RInt(x), RInt(y)>>)

\* path[-2::-1]: the reversal that loses the last entry
Reverse_from_second_last(path) == [i \in 1..(Len(path) - 1) |-> path[Len(path) - i]]

\* path[::-1]
Reverse(path) == [i \in 1..Len(path) |-> path[Len(path) + 1 - i]]

\* an absent style attribute
NoStyle == "None"

(***************************************************************************)
(* PathGraph (shape.py:190-276)                                            *)
(***************************************************************************)
\* defaultdict(set) as a function over the keys that hold something; a read
\* of a missing key gives the empty set
DGet(d, k) == IF k \in DOMAIN d THEN d[k] ELSE {}
DAdd(d, k, v) == [x \in DOMAIN d \cup {k} |-> IF x = k THEN DGet(d, k) \cup {v} ELSE d[x]]

\* PathGraph.__init__
EmptyGraph == [vertices |-> {}, paths |-> <<>>, heads |-> <<>>, tails |-> <<>>]

\* the two loops of PathGraph.add over the updated heads and tails
AddPaths(paths, path, incoming, outgoing) ==
    [x \in DOMAIN paths \cup incoming \cup (IF outgoing = {} THEN {} ELSE {path}) |->
        (IF x \in incoming THEN DGet(paths, x) \cup {path} ELSE DGet(paths, x))
        \cup (IF x = path THEN outgoing ELSE {})]

\* PathGraph.add once heads and tails hold the path
AddLinked(g, path, heads, tails) ==
    [vertices |-> g.vertices \cup {path},
     paths |-> AddPaths(g.paths, path, DGet(tails, path[1]), DGet(heads, path[Len(path)])),
     heads |-> heads,
     tails |-> tails]

\* PathGraph.add with the two loops run before heads and tails hold the path
PathGraph_add_links_first(g, path) ==
    [vertices |-> g.vertices \cup {path},
     paths |-> AddPaths(g.paths, path, DGet(g.tails, path[1]), DGet(g.heads, path[Len(path)])),
     heads |-> DAdd(g.heads, path[1], path),
     tails |-> DAdd(g.tails, path[Len(path)], path)]

\* PathGraph.add
PathGraph_add(g, path) ==
    AddLinked(g, path, DAdd(g.heads, path[1], path), DAdd(g.tails, path[Len(path)], path))

\* the walk along parents that builds result (shape.py:252-258)
RECURSIVE WalkBack(_, _, _, _)
WalkBack(par, v, next_node, result) ==
    IF next_node = v THEN result
    ELSE WalkBack(par, v, par[next_node], <<next_node>> \o result)

\* get_cycle with result = [] where the code has result = [v]
CycleResult_no_root(par, v) ==
    IF v \notin DOMAIN par THEN <<>> ELSE WalkBack(par, v, par[v], <<>>)

\* what get_cycle returns once its loop has ended with these parents
CycleResult(par, v) ==
    IF v \notin DOMAIN par THEN <<>> ELSE WalkBack(par, v, par[v], <<v>>)

\* the children with no parent given the first parent on record as theirs
Adopt_first_parent(par, children, curr_vertex) ==
    [x \in DOMAIN par \cup children |->
        IF x \in DOMAIN par THEN par[x] ELSE par[CHOOSE y \in DOMAIN par : TRUE]]

\* parents after the children of curr_vertex that have none are given it
Adopt(par, children, curr_vertex) ==
    [x \in DOMAIN par \cup children |-> IF x \in DOMAIN par THEN par[x] ELSE curr_vertex]

(***************************************************************************)
(* ShapeGraph (shape.py:160-187)                                           *)
(***************************************************************************)
\* defaultdict(PathGraph): the keys in insertion order and the graphs
EmptyDict == [keys |-> <<>>, map |-> <<>>]
OGet(od, k) == IF k \in DOMAIN od.map THEN od.map[k] ELSE EmptyGraph
OPut(od, k, g) ==
    [keys |-> IF k \in DOMAIN od.map THEN od.keys ELSE Append(od.keys, k),
     map |-> [x \in DOMAIN od.map \cup {k} |-> IF x = k THEN g ELSE od.map[x]]]

\* self.<dict>[id].add(path) when id is not None
AddTo(od, id, path) ==
    IF id # NoStyle THEN OPut(od, id, PathGraph_add(OGet(od, id), path)) ELSE od

\* ShapeGraph.__init__
EmptyShape == [fills |-> EmptyDict, strokes |-> EmptyDict]

\* add_edge that files the segment under fill_right as it is given
add_edge_right_as_given(sg, path, fill_left, fill_right, stroke) ==
    [fills |-> AddTo(AddTo(sg.fills, fill_left, path), fill_right, path),
     strokes |-> AddTo(sg.strokes, stroke, path)]

\* add_edge that files the segment under stroke reversed
add_edge_stroke_reversed(sg, path, fill_left, fill_right, stroke) ==
    [fills |-> AddTo(AddTo(sg.fills, fill_left, path), fill_right, Reverse(path)),
     strokes |-> AddTo(sg.strokes, stroke, Reverse(path))]

\* ShapeGraph.add_edge
add_edge(sg, path, fill_left, fill_right, stroke) ==
    [fills |-> AddTo(AddTo(sg.fills, fill_left, path), fill_right, Reverse(path)),
     strokes |-> AddTo(sg.strokes, stroke, path)]

\* next_pl of get_fills: the paths of a cycle, one after the other
RECURSIVE Extend(_)
Extend(cycle) == IF Len(cycle) = 0 THEN <<>> ELSE cycle[1] \o Extend(Tail(cycle))

(***************************************************************************)
(* path_to_svg_format and path_to_bounding_box (shape.py:37-105)           *)
(***************************************************************************)
\* the pieces joined by " ".join(path): a command letter, or f"{x} {y}"
SvgCommand(c) == [cmd |-> c, pt |-> <<>>]
SvgPoint(e) == [cmd |-> "", pt |-> e.pt]

\* the command letter written before every piece
Letter_every_piece(command, last_command) == <<SvgCommand(command)>>

\* the command letter, written only when it differs from the last one
Letter(command, last_command) ==
    IF command # last_command THEN <<SvgCommand(command)>> ELSE <<>>

\* the while loop of path_to_svg_format from entry i on
RECURSIVE SvgLoop(_, _, _)
SvgLoop(pl, i, last_command) ==
    IF i > Len(pl) THEN <<>>
    ELSE IF pl[i].ctrl
    THEN Letter("Q", last_command) \o <<SvgPoint(pl[i])>>
         \o (IF i + 1 > Len(pl) THEN <<>>
             ELSE <<SvgPoint(pl[i + 1])>> \o SvgLoop(pl, i + 2, "Q"))
    ELSE Letter("L", last_command) \o <<SvgPoint(pl[i])>> \o SvgLoop(pl, i + 1, "L")

path_to_svg_format(pl) ==
    <<SvgCommand("M"), SvgPoint(pl[1])>> \o SvgLoop(pl, 2, "M")

\* the while loop of path_to_bounding_box from entry i on; last_pt moves on
\* after a curve and stays where it is after a line
RECURSIVE BoxLoop(_, _, _, _)
BoxLoop(path, i, last_pt, box) ==
    IF i > Len(path) THEN box
    ELSE IF path[i].ctrl
    THEN IF i + 1 > Len(path) THEN box
         ELSE BoxLoop(path, i + 2, path[i + 1].pt,
                      merge_bounding_boxes(box,
                          quadratic_bounding_box_util(last_pt, path[i].pt, path[i + 1].pt)))
    ELSE BoxLoop(path, i + 1, last_pt,
                 merge_bounding_boxes(box, line_bounding_box(last_pt, path[i].pt)))

path_to_bounding_box(path) ==
    BoxLoop(path, 2, path[1].pt, <<path[1].pt[1], path[1].pt[2], path[1].pt[1], path[1].pt[2]>>)

\* " ".join(path_to_svg_format(pl) for pl in paths)
RECURSIVE JoinPaths(_)
JoinPaths(paths) ==
    IF Len(paths) = 0 THEN <<>> ELSE path_to_svg_format(paths[1]) \o JoinPaths(Tail(paths))

\* reduce(merge_bounding_boxes, [box, *map(path_to_bounding_box, paths)])
RECURSIVE MergeBoxes(_, _)
MergeBoxes(box, paths) ==
    IF Len(paths) = 0 THEN box
    ELSE MergeBoxes(merge_bounding_boxes(box, path_to_bounding_box(paths[1])), Tail(paths))

(***************************************************************************)
(* Inputs of the number codec                                              *)
(***************************************************************************)
\* longest integer and fraction parts of the generated hex literals
MaxIntDigits == 7
MaxFracDigits == 3
\* digits of the generated hex literals: top bit clear and top bit set
HexDigitSet == {"0", "8"}

DigitStrings(n) == UNION {[1..k -> HexDigitSet] : k \in 1..n}

\* the padded digits stay within the integers the checker computes with:
\* digits in front of the low 31 bits are zero when there are more than 8
SmallEnough(I, F) ==
    LET h == PadLeft(I, IntWidth) \o PadRight(F, FracWidth)
    IN Len(h) <= 8 \/ \A i \in 1..(Len(h) - 7) : h[i] = "0"

GeneratedHex ==
    {<<"#">> \o I \o <<".">> \o F :
        <<I, F>> \in {p \in DigitStrings(MaxIntDigits) \X DigitStrings(MaxFracDigits) :
                        SmallEnough(p[1], p[2])}}

Hex004000 == <<"#", "0", "0", "4", "0", "0", "0", ".", "0", "0">>
Hex000000 == <<"#", "0", "0", "0", "0", "0", "0", ".", "0", "0">>

SampleNumbers ==
    { Hex004000, Hex000000,
      <<"#", "3", "E", "8", ".", "0">>,
      <<"#", "F", "F", "F", "F", "F", "F", ".", "F", "F">>,
      <<"#", "7", "F", "F", "F", "F", "F", ".", "F", "F">>,
      <<"#", "F", "F", "F", "F", ".", "8">>,
      <<"#", "G", ".", "0">>,
      <<"#", "0", "0", "0", "0", "0", "1", "0", "0", ".", "0", "0">>,
      <<"#", "1", ".", "0", "0", "0", "4">>,
      <<"#", ".", "0", "0">>,
      <<"#", "a", "b", ".", "c", "d">>,
      <<"1", "0">>, <<"-", "5">>, <<"1", ".", "5">>, <<"0">>, <<"-", "0", ".", "5">>,
      <<"1", "e", "5">>, <<"1", ".", "2", ".", "3">>, <<"1", ".">>,
      <<"S", "1">>, <<"a", "b", "c">> }

NumInputs == GeneratedHex \cup SampleNumbers

(***************************************************************************)
(* Inputs of edge_format_to_point_lists                                    *)
(***************************************************************************)
\* commands after the first moveto of a generated edge string
MaxCmds == 3
\* tokens cut off the end of a generated edge string
MaxDrop == 3

N0 == <<"0">>
N5 == <<"5">>
N10 == <<"1", "0">>
N30 == <<"3", "0">>
GenPoints == {<<N0, N0>>, <<N10, N10>>}
GenControls == {<<N5, N30>>}

Movetos == {<<<<"!">>, p[1], p[2]>> : p \in GenPoints}
Linetos == {<<<<"|">>, p[1], p[2]>> : p \in GenPoints}
Quadtos == {<<<<"[">>, c[1], c[2], p[1], p[2]>> : c \in GenControls, p \in GenPoints}
GenCommands == Movetos \cup Linetos \cup Quadtos

\* token streams of at most n commands
RECURSIVE CommandStreams(_)
CommandStreams(n) ==
    IF n = 0 THEN {<<>>}
    ELSE CommandStreams(n - 1) \cup
         {s \o c : s \in CommandStreams(n - 1), c \in GenCommands}

\* the tokens written out with a space between them
RECURSIVE Join(_)
Join(toks) ==
    IF Len(toks) = 0 THEN <<>>
    ELSE IF Len(toks) = 1 THEN toks[1]
    ELSE toks[1] \o <<" ">> \o Join(Tail(toks))

DropLast(toks, k) == SubSeq(toks, 1, Len(toks) - k)

\* a moveto followed by commands, whole or cut short; a single command that
\* need not be a moveto; the empty string
GeneratedEdges ==
    {Join(DropLast(m \o s, k)) :
        m \in Movetos, s \in CommandStreams(MaxCmds), k \in 0..MaxDrop}
    \cup {Join(c) : c \in GenCommands}

\* "!0 0|10 0|10 10|0 10!0 0"
EdgeSquare ==
    <<"!", "0", " ", "0", "|", "1", "0", " ", "0", "|", "1", "0", " ", "1",
    "0", "|", "0", " ", "1", "0", "!", "0", " ", "0">>
\* "!0 0|10 0!20 20|30 20"
EdgeTwoSegments ==
    <<"!", "0", " ", "0", "|", "1", "0", " ", "0", "!", "2", "0", " ", "2",
    "0", "|", "3", "0", " ", "2", "0">>
\* "!0 0|10 0|10 10|0 10|0 0"
EdgeClosedSquare ==
    <<"!", "0", " ", "0", "|", "1", "0", " ", "0", "|", "1", "0", " ", "1",
    "0", "|", "0", " ", "1", "0", "|", "0", " ", "0">>
\* "!0 0S1|10 0"
EdgeSelect ==
    <<"!", "0", " ", "0", "S", "1", "|", "1", "0", " ", "0">>
\* "!0 0/10 0]5 30 10 10"
EdgeSlashBracket ==
    <<"!", "0", " ", "0", "/", "1", "0", " ", "0", "]", "5", " ", "3", "0",
    " ", "1", "0", " ", "1", "0">>
\* "!#A.0 #0.0|#FFFFF6.0 #0.8"
EdgeHex ==
    <<"!", "#", "A", ".", "0", " ", "#", "0", ".", "0", "|", "#", "F", "F",
    "F", "F", "F", "6", ".", "0", " ", "#", "0", ".", "8">>
\* "!0 0 5 1 2 3 4"
EdgeNumberAsCommand ==
    <<"!", "0", " ", "0", " ", "5", " ", "1", " ", "2", " ", "3", " ", "4">>
\* "!0 0"
EdgeLoneMoveto ==
    <<"!", "0", " ", "0">>
\* "!0 0|#G.0 0"
EdgeBadHex ==
    <<"!", "0", " ", "0", "|", "#", "G", ".", "0", " ", "0">>

\* "!#A.0 #0.0S1|10 0"
EdgeHexSelect ==
    <<"!", "#", "A", ".", "0", " ", "#", "0", ".", "0", "S", "1", "|", "1", "0",
    " ", "0">>

SampleEdges ==
    {EdgeSquare, EdgeTwoSegments, EdgeClosedSquare, EdgeSelect, EdgeSlashBracket,
     EdgeHex, EdgeNumberAsCommand, EdgeLoneMoveto, EdgeBadHex, EdgeHexSelect}

EdgeInputs == GeneratedEdges \cup SampleEdges

(***************************************************************************)
(* Inputs of the shape conversion: the pieces xfl_domshape_to_edges gives  *)
(* for a DOMShape, and the style tables xfl_domshape_to_styles reads       *)
(***************************************************************************)
MaxSegs == 3
MaxPieces == 2

\* (path, fill_id_left, fill_id_right, stroke_id)
Piece(path, fill_left, fill_right, stroke) ==
    [path |-> path, fill_left |-> fill_left, fill_right |-> fill_right, stroke |-> stroke]

\* a <DOMShape>: its pieces, the indexes of its FillStyles, and the
\* stroke-width of each of its StrokeStyles
DomShape(pieces) ==
    [edges |-> pieces, fill_styles |-> {"1", "2"}, stroke_styles |-> [id \in {"1"} |-> RInt(2)]]

RECURSIVE SetToSeq(_)
SetToSeq(S) ==
    IF S = {} THEN <<>>
    ELSE LET x == CHOOSE y \in S : TRUE IN <<x>> \o SetToSeq(S \ {x})

\* every order list(paths) can give the paths of a set
RECURSIVE Orders(_)
Orders(S) ==
    IF S = {} THEN {<<>>}
    ELSE UNION {{<<x>> \o rest : rest \in Orders(S \ {x})} : x \in S}

RECURSIVE SeqsUpTo(_, _)
SeqsUpTo(S, n) ==
    IF n = 0 THEN {<<>>}
    ELSE SeqsUpTo(S, n - 1) \cup {Append(q, x) : q \in SeqsUpTo(S, n - 1), x \in S}

PA == Pt(0, 0)
PB == Pt(10, 0)
PC == Pt(10, 10)
PD == Pt(0, 10)
PE == Pt(20, 10)
PF == Pt(20, 20)
PG == Pt(10, 20)

\* the straight segments between three points and a closed curve at each
SegmentUniverse ==
    {s \in {<<a, b>> : a \in {PA, PB, PC}, b \in {PA, PB, PC}} : s[1] # s[2]}
    \cup {<<a, Ctl(5, 30), a>> : a \in {PA, PB, PC}}

\* up to MaxSegs segments with fill "1" on the left
SubsetDocs ==
    {DomShape(SetToSeq({Piece(path, "1", NoStyle, NoStyle) : path \in S})) :
        S \in {T \in SUBSET SegmentUniverse : Cardinality(T) <= MaxSegs}}

\* style ids an edge can carry: known ones, "9" and "7" in no table
GenStyles ==
    {<<"1", NoStyle, NoStyle>>, <<"9", NoStyle, "1">>, <<"9", "2", NoStyle>>,
     <<NoStyle, "1", "7">>, <<"9", NoStyle, NoStyle>>, <<"2", NoStyle, "1">>,
     <<"1", "2", NoStyle>>}

GenPieces ==
    {Piece(path, st[1], st[2], st[3]) :
        path \in {<<PA, PB>>, <<PA, Ctl(5, 30), PA>>}, st \in GenStyles}

PieceDocs == {DomShape(pieces) : pieces \in SeqsUpTo(GenPieces, MaxPieces)}

Filled(paths) == [i \in 1..Len(paths) |-> Piece(paths[i], "1", NoStyle, NoStyle)]

\* the sides of two unit squares that touch at PC
SquareOne == <<<<PA, PB>>, <<PB, PC>>, <<PC, PD>>, <<PD, PA>>>>
SquareTwo == <<<<PC, PE>>, <<PE, PF>>, <<PF, PG>>, <<PG, PC>>>>
TouchingSquares == DomShape(Filled(SquareOne \o SquareTwo))

\* a square and, apart from it, a triangle
FarTriangle == <<<<PE, PF>>, <<PF, PG>>, <<PG, PE>>>>
DisjointCycles == DomShape(Filled(SquareOne \o FarTriangle))

\* a square with one more segment that leads nowhere
Dangling == DomShape(Filled(SquareOne \o <<<<PC, PE>>>>))

\* two closed outlines through the same two points
Lens ==
    DomShape(Filled(<<<<PA, Ctl(5, 30), PC>>, <<PC, Ctl(30, 5), PA>>,
                      <<PA, Ctl(5, 10), PC>>, <<PC, Ctl(10, 5), PA>>>>))

\* a closed outline whose left fill is in no table and whose stroke is known
UnknownFillKnownStroke ==
    DomShape(<<Piece(<<PA, PB>>, "9", NoStyle, "1"), Piece(<<PB, PA>>, "9", NoStyle, "1")>>)

SampleDocs == {TouchingSquares, DisjointCycles, Dangling, Lens, UnknownFillKnownStroke}

\* a triangle and a closed curve at one of its corners, added in every order
OrderedSegments == {<<PA, PB>>, <<PB, PC>>, <<PC, PA>>, <<PA, Ctl(5, 30), PA>>}
OrderDocs == {DomShape(Filled(q)) : q \in Orders(OrderedSegments)}

Docs == SubsetDocs \cup PieceDocs \cup SampleDocs \cup OrderDocs

(***************************************************************************)
(* The codec applied to one literal: tokenize, then decode every token     *)
(***************************************************************************)
InitNumberVars ==
    /\ num_pc = "input"
    /\ num_in \in NumInputs
    /\ num_tokens = <<>>
    /\ num_out = <<>>

\* tokens = iter(EDGE_TOKENIZER.findall(edges))
NumTokenize ==
    /\ num_pc = "input"
    /\ num_tokens' = EDGE_TOKENIZER(num_in)
    /\ num_pc' = "tokenized"
    /\ UNCHANGED <<num_in, num_out>>
    /\ UNCHANGED <<edgeVars, shapeVars, callVars, pairVars>>

\* parse_number(next(tokens)) for each token
NumParse ==
    /\ num_pc = "tokenized"
    /\ num_out' = [i \in 1..Len(num_tokens) |-> parse_number(num_tokens[i])]
    /\ num_pc' = "parsed"
    /\ UNCHANGED <<num_in, num_tokens>>
    /\ UNCHANGED <<edgeVars, shapeVars, callVars, pairVars>>

NextNumber == NumTokenize \/ NumParse

IdleNumber ==
    num_pc = "idle" /\ num_in = <<>> /\ num_tokens = <<>> /\ num_out = <<>>

(***************************************************************************)
(* The generator run to its end on one edge string                         *)
(***************************************************************************)
InitEdgeVars ==
    /\ edge_pc = "start"
    /\ edges \in EdgeInputs
    /\ tokens = <<>>
    /\ pos = 1
    /\ point_list = <<>>
    /\ bounding_box = None
    /\ prev_point = <<>>
    /\ yielded = <<>>
    /\ edge_err = ""

IdleEdge ==
    /\ edge_pc = "idle" /\ edges = <<>> /\ tokens = <<>> /\ pos = 1
    /\ point_list = <<>> /\ bounding_box = None /\ prev_point = <<>>
    /\ yielded = <<>> /\ edge_err = ""

NextEdge == EdgeStart \/ EdgeCommand

(***************************************************************************)
(* xfl_domshape_to_svg (shape.py:382-416) on one DOMShape                  *)
(***************************************************************************)
\* the exception that left shape_graph_to_svg, with its key and where the
\* lookup was
NoError == [type |-> "", key |-> "", at |-> ""]
KeyError(index, at) == [type |-> "KeyError", key |-> index, at |-> at]

InitShapeVars ==
    /\ shape_pc = "edges"
    /\ domshape \in Docs
    /\ mask \in BOOLEAN
    /\ edge_i = 0
    /\ shape = EmptyShape
    /\ fill_i = 0
    /\ pending = {}
    /\ cycles = <<>>
    /\ root = <<>>
    /\ parents = <<>>
    /\ frontier = {}
    /\ fill_paths = <<>>
    /\ stroke_i = 0
    /\ stroke_paths = <<>>
    /\ bbox = None
    /\ shape_err = NoError
    /\ warned = <<>>

IdleShape ==
    /\ shape_pc = "idle" /\ domshape = <<>> /\ mask = FALSE /\ edge_i = 0
    /\ shape = EmptyShape /\ fill_i = 0 /\ pending = {} /\ cycles = <<>>
    /\ root = <<>> /\ parents = <<>> /\ frontier = {} /\ fill_paths = <<>>
    /\ stroke_i = 0 /\ stroke_paths = <<>> /\ bbox = None /\ shape_err = NoError
    /\ warned = <<>>

\* an id the table does not hold becomes None
KnownOrNone(id, known) == IF id \in known THEN id ELSE NoStyle

\* the test of xfl_domshape_to_visible_edges on the ids it has looked up
Visible(piece) ==
    \/ KnownOrNone(piece.fill_left, domshape.fill_styles) # NoStyle
    \/ KnownOrNone(piece.fill_right, domshape.fill_styles) # NoStyle
    \/ KnownOrNone(piece.stroke, DOMAIN domshape.stroke_styles) # NoStyle

\* what the generator passes on to shape.add_edge(*edge): shape_piece itself
AddPiece(piece) ==
    add_edge(shape, piece.path, piece.fill_left, piece.fill_right, piece.stroke)

\* one pass of `for edge in shape_edges: shape.add_edge(*edge)`
AddEdge ==
    /\ shape_pc = "edges"
    /\ edge_i < Len(domshape.edges)
    /\ edge_i' = edge_i + 1
    /\ shape' = IF mask \/ Visible(domshape.edges[edge_i + 1])
                THEN AddPiece(domshape.edges[edge_i + 1])
                ELSE shape
    /\ UNCHANGED <<shape_pc, domshape, mask, fill_i, pending, cycles, root, parents,
                   frontier, fill_paths, stroke_i, stroke_paths, bbox, shape_err, warned>>
    /\ UNCHANGED <<numVars, edgeVars, callVars, pairVars>>

\* shape_edges is exhausted: shape_graph_to_svg is entered
EdgesDone ==
    /\ shape_pc = "edges"
    /\ edge_i = Len(domshape.edges)
    /\ shape_pc' = "fills"
    /\ UNCHANGED <<domshape, mask, edge_i, shape, fill_i, pending, cycles, root,
                   parents, frontier, fill_paths, stroke_i, stroke_paths, bbox,
                   shape_err, warned>>
    /\ UNCHANGED <<numVars, edgeVars, callVars, pairVars>>

\* the PathGraph get_fills is at
FillId == shape.fills.keys[fill_i + 1]
FillGraph == shape.fills.map[FillId]

\* get_fills takes the next fill id; covering_cycles copies the vertices
NextFill ==
    /\ shape_pc = "fills"
    /\ fill_i < Len(shape.fills.keys)
    /\ pending' = FillGraph.vertices
    /\ cycles' = Append(cycles, <<>>)
    /\ shape_pc' = "cover"
    /\ UNCHANGED <<domshape, mask, edge_i, shape, fill_i, root, parents, frontier,
                   fill_paths, stroke_i, stroke_paths, bbox, shape_err, warned>>
    /\ UNCHANGED <<numVars, edgeVars, callVars, pairVars>>

\* get_fills is exhausted
FillsDone ==
    /\ shape_pc = "fills"
    /\ fill_i = Len(shape.fills.keys)
    /\ shape_pc' = "strokes"
    /\ UNCHANGED <<domshape, mask, edge_i, shape, fill_i, pending, cycles, root,
                   parents, frontier, fill_paths, stroke_i, stroke_paths, bbox,
                   shape_err, warned>>
    /\ UNCHANGED <<numVars, edgeVars, callVars, pairVars>>

\* get_cycle whose first loop passes over start when start is its own child
CycleEnter_skip_start(start, children) ==
    IF children \ {start} = {}
    THEN UNCHANGED <<shape_pc, root, parents, frontier>>
    ELSE /\ root' = start
         /\ parents' = [child \in children \ {start} |-> start]
         /\ frontier' = children \ {start}
         /\ shape_pc' = "cycle"

\* get_cycle(start) up to its while loop; with no child it returns [] at once
CycleEnter(start, children) ==
    IF children = {}
    THEN UNCHANGED <<shape_pc, root, parents, frontier>>
    ELSE /\ root' = start
         /\ parents' = [child \in children |-> start]
         /\ frontier' = children
         /\ shape_pc' = "cycle"

\* start = pending.pop()
CoverPop ==
    /\ shape_pc = "cover"
    /\ \E start \in pending :
        /\ pending' = pending \ {start}
        /\ CycleEnter(start, DGet(FillGraph.paths, start))
    /\ UNCHANGED <<domshape, mask, edge_i, shape, fill_i, cycles, fill_paths,
                   stroke_i, stroke_paths, bbox, shape_err, warned>>
    /\ UNCHANGED <<numVars, edgeVars, callVars, pairVars>>

\* covering_cycles without the loop that removes the cycle from pending
CycleReturn_keep_pending(cycle) ==
    /\ shape_pc' = "cover"
    /\ root' = <<>>
    /\ parents' = <<>>
    /\ frontier' = {}
    /\ UNCHANGED pending
    /\ IF cycle = <<>>
       THEN UNCHANGED cycles
       ELSE cycles' = [cycles EXCEPT ![Len(cycles)] = Append(@, cycle)]

\* get_cycle returns; covering_cycles yields a cycle that is not empty and
\* takes its paths out of pending
CycleReturn(cycle) ==
    /\ shape_pc' = "cover"
    /\ root' = <<>>
    /\ parents' = <<>>
    /\ frontier' = {}
    /\ IF cycle = <<>>
       THEN UNCHANGED <<cycles, pending>>
       ELSE /\ cycles' = [cycles EXCEPT ![Len(cycles)] = Append(@, cycle)]
            /\ pending' = pending \ {cycle[i] : i \in 1..Len(cycle)}

\* the rest of a pass of the while loop once the children have their parents
CycleExpand(par, rest) ==
    IF rest = {}
    THEN CycleReturn(CycleResult(par, root))
    ELSE /\ parents' = par
         /\ frontier' = rest
         /\ UNCHANGED <<shape_pc, root, cycles, pending>>

\* the children of curr_vertex without the test `if child in parents`
Orphans_no_test(curr_vertex) == DGet(FillGraph.paths, curr_vertex)

\* the children of curr_vertex that have no parent yet
Orphans(curr_vertex) == DGet(FillGraph.paths, curr_vertex) \ DOMAIN parents

\* curr_vertex = pending.pop() in get_cycle
CycleStep ==
    /\ shape_pc = "cycle"
    /\ \E curr_vertex \in frontier :
        IF curr_vertex = root
        THEN CycleReturn(CycleResult(parents, root))
        ELSE CycleExpand(Adopt(parents, Orphans(curr_vertex), curr_vertex),
                         (frontier \ {curr_vertex}) \cup Orphans(curr_vertex))
    /\ UNCHANGED <<domshape, mask, edge_i, shape, fill_i, fill_paths, stroke_i,
                   stroke_paths, bbox, shape_err, warned>>
    /\ UNCHANGED <<numVars, edgeVars, callVars, pairVars>>

\* point_lists of get_fills
PointLists(cs) == [i \in 1..Len(cs) |-> Extend(cs[i])]

\* the fill loop writing only the first cycle into the path
FillBody_first_cycle(fill_id, paths) ==
    IF paths = <<>>
    THEN shape_pc' = "fills" /\ UNCHANGED <<fill_paths, bbox, shape_err>>
    ELSE IF ~mask /\ fill_id \notin domshape.fill_styles
    THEN /\ shape_pc' = "raised"
         /\ shape_err' = KeyError(fill_id, "require_fill")
         /\ UNCHANGED <<fill_paths, bbox>>
    ELSE /\ fill_paths' = Append(fill_paths, [style |-> fill_id, d |-> path_to_svg_format(paths[1])])
         /\ bbox' = MergeBoxes(bbox, paths)
         /\ shape_pc' = "fills"
         /\ UNCHANGED shape_err

\* the body of `for fill_id, paths in shape.get_fills()`
FillBody(fill_id, paths) ==
    IF paths = <<>>
    THEN shape_pc' = "fills" /\ UNCHANGED <<fill_paths, bbox, shape_err>>
    ELSE IF ~mask /\ fill_id \notin domshape.fill_styles
    THEN /\ shape_pc' = "raised"
         /\ shape_err' = KeyError(fill_id, "require_fill")
         /\ UNCHANGED <<fill_paths, bbox>>
    ELSE /\ fill_paths' = Append(fill_paths, [style |-> fill_id, d |-> JoinPaths(paths)])
         /\ bbox' = MergeBoxes(bbox, paths)
         /\ shape_pc' = "fills"
         /\ UNCHANGED shape_err

\* covering_cycles is exhausted: get_fills yields and the body runs
CoverDone ==
    /\ shape_pc = "cover"
    /\ pending = {}
    /\ fill_i' = fill_i + 1
    /\ FillBody(FillId, PointLists(cycles[Len(cycles)]))
    /\ UNCHANGED <<domshape, mask, edge_i, shape, pending, cycles, root, parents,
                   frontier, stroke_i, stroke_paths, warned>>
    /\ UNCHANGED <<numVars, edgeVars, callVars, pairVars>>

StrokeId == shape.strokes.keys[stroke_i + 1]

\* float(stroke_style.get("stroke-width", 1))
StrokeWidth(stroke_id) == IF mask THEN RInt(1) ELSE domshape.stroke_styles[stroke_id]

\* the stroke loop merging the box of the paths as it is, not expanded
StrokeBody_unexpanded(stroke_id, paths) ==
    IF ~mask /\ stroke_id \notin DOMAIN domshape.stroke_styles
    THEN /\ shape_pc' = "raised"
         /\ shape_err' = KeyError(stroke_id, "require_stroke")
         /\ UNCHANGED <<stroke_paths, bbox>>
    ELSE /\ stroke_paths' = Append(stroke_paths, [style |-> stroke_id, d |-> JoinPaths(paths)])
         /\ bbox' = merge_bounding_boxes(bbox,
                        MergeBoxes(path_to_bounding_box(paths[1]), Tail(paths)))
         /\ UNCHANGED <<shape_pc, shape_err>>

\* the body of `for stroke_id, paths in shape.get_strokes()`
StrokeBody(stroke_id, paths) ==
    IF ~mask /\ stroke_id \notin DOMAIN domshape.stroke_styles
    THEN /\ shape_pc' = "raised"
         /\ shape_err' = KeyError(stroke_id, "require_stroke")
         /\ UNCHANGED <<stroke_paths, bbox>>
    ELSE /\ stroke_paths' = Append(stroke_paths, [style |-> stroke_id, d |-> JoinPaths(paths)])
         /\ bbox' = merge_bounding_boxes(bbox,
                        expanding_bounding_box(
                            MergeBoxes(path_to_bounding_box(paths[1]), Tail(paths)),
                            StrokeWidth(stroke_id)))
         /\ UNCHANGED <<shape_pc, shape_err>>

\* get_strokes yields the vertices of the next stroke id
NextStroke ==
    /\ shape_pc = "strokes"
    /\ stroke_i < Len(shape.strokes.keys)
    /\ stroke_i' = stroke_i + 1
    /\ \E paths \in Orders(shape.strokes.map[StrokeId].vertices) :
        StrokeBody(StrokeId, paths)
    /\ UNCHANGED <<domshape, mask, edge_i, shape, fill_i, pending, cycles, root,
                   parents, frontier, fill_paths, warned>>
    /\ UNCHANGED <<numVars, edgeVars, callVars, pairVars>>

\* get_strokes is exhausted: shape_graph_to_svg returns
StrokesDone ==
    /\ shape_pc = "strokes"
    /\ stroke_i = Len(shape.strokes.keys)
    /\ shape_pc' = "done"
    /\ UNCHANGED <<domshape, mask, edge_i, shape, fill_i, pending, cycles, root,
                   parents, frontier, fill_paths, stroke_i, stroke_paths, bbox,
                   shape_err, warned>>
    /\ UNCHANGED <<numVars, edgeVars, callVars, pairVars>>

Next ==
    \/ AddEdge
    \/ EdgesDone
    \/ NextFill
    \/ FillsDone
    \/ CoverPop
    \/ CycleStep
    \/ CoverDone
    \/ NextStroke
    \/ StrokesDone

(***************************************************************************)
(* Two calls of xfl_domshape_to_svg on two shapes, their steps alternating *)
(* in any way: every name the function and its callees assign is a local  *)
(* or an attribute of an object made in the call (ShapeGraph.__init__,     *)
(* PathGraph.__init__, the lists and dicts of shape_graph_to_svg), so a    *)
(* call's state is what goes with it when another call takes over          *)
(***************************************************************************)
\* the locals and objects of the call that is running
Frame ==
    [shape_pc |-> shape_pc, domshape |-> domshape, mask |-> mask, edge_i |-> edge_i,
     shape |-> shape, fill_i |-> fill_i, pending |-> pending, cycles |-> cycles,
     root |-> root, parents |-> parents, frontier |-> frontier,
     fill_paths |-> fill_paths, stroke_i |-> stroke_i, stroke_paths |-> stroke_paths,
     bbox |-> bbox, shape_err |-> shape_err, warned |-> warned]

\* a call that has not taken a step
StartFrame(d, m) ==
    [shape_pc |-> "edges", domshape |-> d, mask |-> m, edge_i |-> 0,
     shape |-> EmptyShape, fill_i |-> 0, pending |-> {}, cycles |-> <<>>,
     root |-> <<>>, parents |-> <<>>, frontier |-> {},
     fill_paths |-> <<>>, stroke_i |-> 0, stroke_paths |-> <<>>,
     bbox |-> None, shape_err |-> NoError, warned |-> <<>>]

\* a triangle with a closed curve at a corner; a filled, stroked closed
\* curve with a segment of another fill; an outline with an unknown fill
PairDocs ==
    { DomShape(Filled(<<<<PA, PB>>, <<PB, PC>>, <<PC, PA>>, <<PA, Ctl(5, 30), PA>>>>)),
      DomShape(<<Piece(<<PA, Ctl(5, 30), PA>>, "2", NoStyle, "1"),
                 Piece(<<PA, PB>>, "1", NoStyle, NoStyle)>>),
      UnknownFillKnownStroke }

IdlePair == running = 0 /\ parked = <<>>

\* the other call takes over, with a ShapeGraph held by the class and not
\* by the instance: the graph stays where it is
Switch_shared_graph ==
    /\ running \in {1, 2}
    /\ running' = 3 - running
    /\ parked' = Frame
    /\ shape_pc' = parked.shape_pc /\ domshape' = parked.domshape /\ mask' = parked.mask
    /\ edge_i' = parked.edge_i /\ fill_i' = parked.fill_i
    /\ pending' = parked.pending /\ cycles' = parked.cycles /\ root' = parked.root
    /\ parents' = parked.parents /\ frontier' = parked.frontier
    /\ fill_paths' = parked.fill_paths /\ stroke_i' = parked.stroke_i
    /\ stroke_paths' = parked.stroke_paths /\ bbox' = parked.bbox
    /\ shape_err' = parked.shape_err /\ warned' = parked.warned
    /\ UNCHANGED shape
    /\ UNCHANGED <<numVars, edgeVars, callVars>>

\* the other call takes over: the running call's state is put aside as it
\* is, and the waiting call's state is the one the steps now act on
Switch ==
    /\ running \in {1, 2}
    /\ running' = 3 - running
    /\ parked' = Frame
    /\ shape_pc' = parked.shape_pc /\ domshape' = parked.domshape /\ mask' = parked.mask
    /\ edge_i' = parked.edge_i /\ shape' = parked.shape /\ fill_i' = parked.fill_i
    /\ pending' = parked.pending /\ cycles' = parked.cycles /\ root' = parked.root
    /\ parents' = parked.parents /\ frontier' = parked.frontier
    /\ fill_paths' = parked.fill_paths /\ stroke_i' = parked.stroke_i
    /\ stroke_paths' = parked.stroke_paths /\ bbox' = parked.bbox
    /\ shape_err' = parked.shape_err /\ warned' = parked.warned
    /\ UNCHANGED <<numVars, edgeVars, callVars>>

NextPair ==
    \/ AddEdge
    \/ EdgesDone
    \/ NextFill
    \/ FillsDone
    \/ CoverPop
    \/ CycleStep
    \/ CoverDone
    \/ NextStroke
    \/ StrokesDone
    \/ Switch

(***************************************************************************)
(* xfl_domshape_to_svg called twice on the same shape, the second call     *)
(* after the first has returned or raised                                  *)
(***************************************************************************)
\* shapes whose fill segments join into closed outlines, one of them stroked
TwiceDocs ==
    { Lens, TouchingSquares, DisjointCycles,
      DomShape(Filled(<<<<PA, PB>>, <<PB, PC>>, <<PC, PA>>, <<PA, Ctl(5, 30), PA>>>>)),
      DomShape(<<Piece(<<PA, Ctl(5, 30), PA>>, "2", NoStyle, "1")>>) }

\* the first call is over: the second one starts
SecondCall ==
    /\ running = 1
    /\ shape_pc \in {"done", "raised"}
    /\ Switch

NextTwice ==
    \/ AddEdge
    \/ EdgesDone
    \/ NextFill
    \/ FillsDone
    \/ CoverPop
    \/ CycleStep
    \/ CoverDone
    \/ NextStroke
    \/ StrokesDone
    \/ SecondCall

(***************************************************************************)
(* point_lists_to_shapes of edge.py (418-493), with its FasterList         *)
(* (341-388) and CircularList (391-413)                                    *)
(***************************************************************************)
\* the items of a list
Range(q) == {q[i] : i \in 1..Len(q)}

\* a defaultdict(lambda: 0)
NGet(f, k) == IF k \in DOMAIN f THEN f[k] ELSE 0
NPut(f, k, n) == [x \in DOMAIN f \cup {k} |-> IF x = k THEN n ELSE f[x]]

\* CircularList: the list, self.index and self.limit
CircularEmpty == [items |-> <<>>, index |-> 0, limit |-> 0]
CircularAppend(c, item) == [c EXCEPT !.items = Append(@, item), !.limit = @ + 1]
\* pop() raises IndexError unless index < limit
CircularCanPop(c) == c.index < c.limit
\* self[self.index % len(self)]
CircularTop(c) == c.items[(c.index % Len(c.items)) + 1]
CircularPopped(c) == [c EXCEPT !.index = @ + 1]
raise_limit(c, count) == [c EXCEPT !.limit = @ + count]

\* defaultdict(CircularList)
CGet(g, k) == IF k \in DOMAIN g THEN g[k] ELSE CircularEmpty
CPut(g, k, c) == [x \in DOMAIN g \cup {k} |-> IF x = k THEN c ELSE g[x]]

\* FasterList: backing, removed, counts, index and length
FasterEmpty == [backing |-> <<>>, removed |-> <<>>, counts |-> <<>>, index |-> 0, length |-> 0]
FasterAppend(l, item) ==
    [l EXCEPT !.backing = Append(@, item),
              !.counts = NPut(@, item, NGet(@, item) + 1),
              !.length = @ + 1]
FasterRemove(l, item) ==
    IF NGet(l.counts, item) = 0 THEN l
    ELSE [l EXCEPT !.removed = NPut(@, item, NGet(@, item) + 1),
                   !.counts = NPut(@, item, NGet(@, item) - 1),
                   !.length = @ - 1]
\* extend(items): counts first, then the backing list and the length
RECURSIVE FasterExtend(_, _)
FasterExtend(l, items) ==
    IF Len(items) = 0 THEN l
    ELSE FasterExtend([l EXCEPT !.backing = Append(@, items[1]),
                                !.counts = NPut(@, items[1], NGet(@, items[1]) + 1),
                                !.length = @ + 1], Tail(items))
\* pop(): entries with a removal on record are passed over; an index past
\* the backing list raises IndexError
RECURSIVE FasterPop(_)
FasterPop(l) ==
    IF l.index + 1 > Len(l.backing) THEN [ok |-> FALSE, val |-> <<>>, list |-> l]
    ELSE IF NGet(l.removed, l.backing[l.index + 1]) > 0
    THEN FasterPop([l EXCEPT !.removed = NPut(@, l.backing[l.index + 1],
                                               NGet(@, l.backing[l.index + 1]) - 1),
                             !.index = @ + 1])
    ELSE [ok |-> TRUE, val |-> l.backing[l.index + 1],
          list |-> [l EXCEPT !.counts = NPut(@, l.backing[l.index + 1],
                                             NGet(@, l.backing[l.index + 1]) - 1),
                             !.index = @ + 1,
                             !.length = @ - 1]]

\* graph[fill_id][source].append(target) for the pairs of a point list from i on
RECURSIVE LinkPairs(_, _, _)
LinkPairs(g, pl, i) ==
    IF i >= Len(pl) THEN g
    ELSE LinkPairs(CPut(g, pl[i], CircularAppend(CGet(g, pl[i]), pl[i + 1])), pl, i + 1)

\* points[fill_id].append(point) for the points of a point list from i on
\* that are no control points
RECURSIVE NotePoints(_, _, _)
NotePoints(l, pl, i) ==
    IF i > Len(pl) THEN l
    ELSE NotePoints(IF pl[i].ctrl THEN l ELSE FasterAppend(l, pl[i]), pl, i + 1)

\* the first loop, over point_lists[::-1], for one fill id: the entries
\* from n down to 1
RECURSIVE Gather(_, _, _, _)
Gather(st, point_lists, fill_id, n) ==
    IF n = 0 THEN st
    ELSE IF point_lists[n][2] # fill_id THEN Gather(st, point_lists, fill_id, n - 1)
    ELSE Gather([st EXCEPT !.edges = LinkPairs(@, point_lists[n][1], 1),
                           !.pend = NotePoints(@, point_lists[n][1], 1)],
                point_lists, fill_id, n - 1)

\* discovered_points[edge] = None
Discover(discovered, edge) ==
    IF \E i \in 1..Len(discovered) : discovered[i] = edge THEN discovered
    ELSE Append(discovered, edge)

\* the loop `while edge != start` inside the try: found is FALSE when a
\* pop raised IndexError
RECURSIVE Trace(_, _, _, _, _)
Trace(st, start, edge, next_shape, discovered) ==
    IF edge = start
    THEN [found |-> TRUE, st |-> st, next_shape |-> next_shape, discovered |-> discovered]
    ELSE IF ~CircularCanPop(CGet(st.edges, edge))
    THEN [found |-> FALSE,
          st |-> IF NGet(st.pend.counts, edge) > 0
                 THEN [st EXCEPT !.pend = FasterRemove(@, edge)] ELSE st,
          next_shape |-> next_shape,
          discovered |-> IF NGet(st.pend.counts, edge) > 0
                         THEN Discover(discovered, edge) ELSE discovered]
    ELSE Trace([st EXCEPT !.pend = IF NGet(@.counts, edge) > 0
                                    THEN FasterRemove(@, edge) ELSE @,
                          !.edges = CPut(@, edge, CircularPopped(CGet(@, edge)))],
               start,
               CircularTop(CGet(st.edges, edge)),
               Append(next_shape, CircularTop(CGet(st.edges, edge))),
               IF NGet(st.pend.counts, edge) > 0 THEN Discover(discovered, edge)
               ELSE discovered)

\* unused_edges[source].raise_limit(1) for the sources of next_shape from i on
RECURSIVE RaiseLimits(_, _, _)
RaiseLimits(g, next_shape, i) ==
    IF i >= Len(next_shape) THEN g
    ELSE RaiseLimits(CPut(g, next_shape[i], raise_limit(CGet(g, next_shape[i]), 1)),
                     next_shape, i + 1)

\* the end of a pass of `while pending_assignments`: the shape is kept or
\* the discovered points go back, and the limits are raised
Settle(t) ==
    [edges |-> RaiseLimits(t.st.edges, t.next_shape, 1),
     pend |-> IF t.found THEN t.st.pend ELSE FasterExtend(t.st.pend, t.discovered),
     shapes |-> IF t.found THEN Append(t.st.shapes, t.next_shape) ELSE t.st.shapes,
     unused |-> IF t.found THEN t.st.unused \ Range(t.next_shape) ELSE t.st.unused,
     err |-> t.st.err]

\* a pass from `edge = unused_edges[start].pop()` on
Follow(st, start, edge) ==
    Settle(Trace([st EXCEPT !.edges = CPut(@, start, CircularPopped(CGet(@, start)))],
                 start, edge, <<start, edge>>, <<>>))

\* the loop `while pending_assignments` for one fill id; a pop that raises
\* outside the try ends the call
RECURSIVE Assign(_)
AfterPop(st, popped) ==
    IF ~popped.ok THEN [st EXCEPT !.err = "IndexError"]
    ELSE IF Len(CGet(st.edges, popped.val).items) = 0
    THEN Assign([st EXCEPT !.pend = popped.list])
    ELSE IF ~CircularCanPop(CGet(st.edges, popped.val))
    THEN [st EXCEPT !.pend = popped.list, !.err = "IndexError"]
    ELSE Assign(Follow([st EXCEPT !.pend = popped.list], popped.val,
                       CircularTop(CGet(st.edges, popped.val))))

Assign(st) == IF st.pend.length = 0 THEN st ELSE AfterPop(st, FasterPop(st.pend))

\* unused_points = set(pending_assignments)
WithUnused(st) == [st EXCEPT !.unused = Range(st.pend.backing)]

\* the shapes of one fill id
ShapesOfFill(point_lists, fill_id) ==
    Assign(WithUnused(Gather([edges |-> <<>>, pend |-> FasterEmpty, shapes |-> <<>>,
                              unused |-> {}, err |-> ""],
                             point_lists, fill_id, Len(point_lists))))

\* point_lists_to_shapes(point_lists): the shapes of every fill id, or the
\* exception that left the function
point_lists_to_shapes(point_lists) ==
    [shapes |-> [id \in {point_lists[i][2] : i \in 1..Len(point_lists)} |->
                    ShapesOfFill(point_lists, id).shapes],
     err |-> IF \E i \in 1..Len(point_lists) :
                    ShapesOfFill(point_lists, point_lists[i][2]).err # ""
             THEN "IndexError" ELSE "",
     warned |-> {point_lists[i][2] : i \in {j \in 1..Len(point_lists) :
                    ShapesOfFill(point_lists, point_lists[j][2]).unused # {}}}]

(***************************************************************************)
(* Single calls of the path and bounding-box functions                     *)
(***************************************************************************)
MaxPathPieces == 3

\* what a line or a curve appends to a point list after its start
PathPieces ==
    {<<e>> : e \in {PA, PB}} \cup {<<Ctl(5, 30), e>> : e \in {PA, PB}}

\* the entries after the first point of a point list of at most n pieces
RECURSIVE PathTails(_)
PathTails(n) ==
    IF n = 0 THEN {<<>>}
    ELSE PathTails(n - 1) \cup {t \o p : t \in PathTails(n - 1), p \in PathPieces}

\* point lists as the edge parser builds them
PathInputs == {<<a>> \o t : a \in {PA, PB}, t \in PathTails(MaxPathPieces)}

Box(a, b, c, d) == <<RInt(a), RInt(b), RInt(c), RInt(d)>>
BoxInputs == {None, Box(0, 0, 10, 10), Box(5, -5, 20, 5), Box(-3, 2, 4, 30)}

Point(x, y) == <<RInt(x), RInt(y)>>

\* p1, control, p2 of a curve
CurveInputs ==
    {<<Point(0, 0), Point(cx, cy), Point(10, ey)>> :
        cx \in {-10, 2, 5, 20}, cy \in {-10, 0, 5, 8, 30}, ey \in {0, 10, 100}}

NotReturned == [done |-> FALSE, val |-> <<>>]
Returned(v) == [done |-> TRUE, val |-> v]

\* (point_list, fill id) for every point list of q
WithFill(q, id) == [i \in 1..Len(q) |-> <<q[i], id>>]

\* the sides of the two touching squares, one square after the other with
\* the sides of one of them in every order; an open path; two fill ids,
\* one of them a closed curve with a segment that leads nowhere
JoinInputs ==
    {WithFill(q, "1") :
        q \in UNION {{a \o SquareTwo, SquareTwo \o a} : a \in Orders(Range(SquareOne))}
            \cup UNION {{SquareOne \o b, b \o SquareOne} : b \in Orders(Range(SquareTwo))}}
    \cup {WithFill(<<<<PA, PB>>, <<PB, PC>>>>, "1"),
          WithFill(<<<<PA, PB>>, <<PB, PC>>, <<PC, PA>>>>, "1")
              \o WithFill(<<<<PA, Ctl(5, 30), PA>>, <<PA, PB>>>>, "2")}

\* point lists for path_to_bounding_box: those above, and a line followed
\* by a curve that bends away from the line's end, with and without the
\* repeated start point that edge_format_to_point_lists writes
BoxPathInputs ==
    PathInputs \cup {<<PA, PB, Ctl(20, 5), PC>>,
                     <<PA, PB, PB, Ctl(20, 5), PC>>,
                     <<PA, Ctl(20, 5), PC, PD>>}

\* a curve and a parameter t, at the ends and inside
BezierInputs ==
    {<<c[1], c[2], c[3], t>> :
        c \in CurveInputs, t \in {RInt(0), Rat(1, 4), Rat(1, 2), RInt(1)}}

InitCallVars ==
    /\ \/ fn \in {"path_to_svg_format", "reverse"} /\ args \in PathInputs
       \/ fn = "quadratic_bezier" /\ args \in BezierInputs
       \/ fn = "path_to_bounding_box" /\ args \in BoxPathInputs
       \/ fn = "point_lists_to_shapes" /\ args \in JoinInputs
       \/ fn = "merge_bounding_boxes" /\ args \in BoxInputs \X BoxInputs \X BoxInputs
       \/ fn \in {"util.quadratic_bounding_box", "edge.quadratic_bounding_box"}
          /\ args \in CurveInputs
    /\ ret = NotReturned

IdleCall == fn = "idle" /\ args = <<>> /\ ret = NotReturned

\* path_to_svg_format(point_list)
CallSvgFormat ==
    /\ fn = "path_to_svg_format" /\ ~ret.done
    /\ ret' = Returned(path_to_svg_format(args))
    /\ UNCHANGED <<fn, args>>
    /\ UNCHANGED <<numVars, edgeVars, shapeVars, pairVars>>

\* path_to_bounding_box(path)
CallPathBox ==
    /\ fn = "path_to_bounding_box" /\ ~ret.done
    /\ ret' = Returned(path_to_bounding_box(args))
    /\ UNCHANGED <<fn, args>>
    /\ UNCHANGED <<numVars, edgeVars, shapeVars, pairVars>>

\* path[::-1][::-1]
CallReverse ==
    /\ fn = "reverse" /\ ~ret.done
    /\ ret' = Returned(Reverse(Reverse(args)))
    /\ UNCHANGED <<fn, args>>
    /\ UNCHANGED <<numVars, edgeVars, shapeVars, pairVars>>

\* merge_bounding_boxes on a, b and c, in the ways its algebra is about
Merges(a, b, c) ==
    [ab |-> merge_bounding_boxes(a, b),
     ba |-> merge_bounding_boxes(b, a),
     aa |-> merge_bounding_boxes(a, a),
     ab_c |-> merge_bounding_boxes(merge_bounding_boxes(a, b), c),
     a_bc |-> merge_bounding_boxes(a, merge_bounding_boxes(b, c))]

CallMerge ==
    /\ fn = "merge_bounding_boxes" /\ ~ret.done
    /\ ret' = Returned(Merges(args[1], args[2], args[3]))
    /\ UNCHANGED <<fn, args>>
    /\ UNCHANGED <<numVars, edgeVars, shapeVars, pairVars>>

\* util.py's quadratic_bounding_box(p1, control, p2)
CallQuadBoxUtil ==
    /\ fn = "util.quadratic_bounding_box" /\ ~ret.done
    /\ ret' = Returned(quadratic_bounding_box_util(args[1], args[2], args[3]))
    /\ UNCHANGED <<fn, args>>
    /\ UNCHANGED <<numVars, edgeVars, shapeVars, pairVars>>

\* edge.py's quadratic_bounding_box(p1, control, p2)
CallQuadBoxEdge ==
    /\ fn = "edge.quadratic_bounding_box" /\ ~ret.done
    /\ ret' = Returned(quadratic_bounding_box_edge(args[1], args[2], args[3]))
    /\ UNCHANGED <<fn, args>>
    /\ UNCHANGED <<numVars, edgeVars, shapeVars, pairVars>>

\* edge.py's point_lists_to_shapes(point_lists)
CallPointListsToShapes ==
    /\ fn = "point_lists_to_shapes" /\ ~ret.done
    /\ ret' = Returned(point_lists_to_shapes(args))
    /\ UNCHANGED <<fn, args>>
    /\ UNCHANGED <<numVars, edgeVars, shapeVars, pairVars>>

\* quadratic_bezier(p1, p2, p3, t) of edge.py and of util.py
CallBezier ==
    /\ fn = "quadratic_bezier" /\ ~ret.done
    /\ ret' = Returned([edge |-> quadratic_bezier_edge(args[1], args[2], args[3], args[4]),
                         util |-> quadratic_bezier_util(args[1], args[2], args[3], args[4])])
    /\ UNCHANGED <<fn, args>>
    /\ UNCHANGED <<numVars, edgeVars, shapeVars, pairVars>>

NextCall ==
    \/ CallBezier
    \/ CallPathBox
    \/ CallPointListsToShapes
    \/ CallSvgFormat
    \/ CallReverse
    \/ CallMerge
    \/ CallQuadBoxUtil
    \/ CallQuadBoxEdge

(***************************************************************************)
(* Specifications                                                          *)
(***************************************************************************)
Init == InitShapeVars /\ IdleNumber /\ IdleEdge /\ IdleCall /\ IdlePair

Spec == Init /\ [][Next]_vars

\* covering_cycles is a generator run to exhaustion by the for loop of
\* get_fills: while a pass of either loop is left, it is taken
SpecFair == Init /\ [][Next]_vars /\ WF_vars(CoverPop) /\ WF_vars(CycleStep)

InitNumber == InitNumberVars /\ IdleEdge /\ IdleShape /\ IdleCall /\ IdlePair

SpecNumber == InitNumber /\ [][NextNumber]_vars

InitEdge == InitEdgeVars /\ IdleNumber /\ IdleShape /\ IdleCall /\ IdlePair

InitCall == InitCallVars /\ IdleNumber /\ IdleEdge /\ IdleShape /\ IdlePair

SpecCall == InitCall /\ [][NextCall]_vars

SpecEdge == InitEdge /\ [][NextEdge]_vars

InitPair ==
    /\ InitShapeVars /\ domshape \in PairDocs
    /\ running = 1
    /\ parked \in {StartFrame(d, m) : d \in PairDocs, m \in BOOLEAN}
    /\ IdleNumber /\ IdleEdge /\ IdleCall

SpecPair == InitPair /\ [][NextPair]_vars

InitTwice ==
    /\ InitShapeVars /\ domshape \in TwiceDocs /\ mask = FALSE
    /\ running = 1
    /\ parked = StartFrame(domshape, mask)
    /\ IdleNumber /\ IdleEdge /\ IdleCall

SpecTwice == InitTwice /\ [][NextTwice]_vars

(***************************************************************************)
(* Properties of the fill cycles (checked under Spec)                      *)
(***************************************************************************)
\* the PathGraph of the k-th fill id and the cycles covering_cycles yielded
\* for it
Group(k) == shape.fills.map[shape.fills.keys[k]]
InCycles(k) == UNION {Range(cycles[k][i]) : i \in 1..Len(cycles[k])}
\* the places (cycle, position) of the yielded cycles
Places(k) == UNION {{<<i, j>> : j \in 1..Len(cycles[k][i])} : i \in 1..Len(cycles[k])}
Occurrences(k, v) == Cardinality({ij \in Places(k) : cycles[k][ij[1]][ij[2]] = v})

\* the segments are disjoint simple cycles: every end point of a segment is
\* where exactly one segment starts and where exactly one segment ends
DisjointSimpleCycles(S) ==
    /\ S # {}
    /\ \A v \in S :
        /\ Cardinality({w \in S : w[1] = v[Len(v)]}) = 1
        /\ Cardinality({w \in S : w[Len(w)] = v[1]}) = 1

C2_TouchingSquaresTwoCycles ==
    (domshape = TouchingSquares /\ Len(cycles) = 1) =>
        /\ \A i \in 1..Len(cycles[1]) :
            /\ Len(cycles[1][i]) = 4
            /\ Range(cycles[1][i]) \in {Range(SquareOne), Range(SquareTwo)}
        /\ fill_i = 1 =>
            /\ Len(cycles[1]) = 2
            /\ Range(cycles[1][1]) # Range(cycles[1][2])

\* the search over the two squares has ended, with all eight sides given
C2_Witness ==
    /\ domshape = TouchingSquares
    /\ fill_i = 1
    /\ Cardinality(Group(1).vertices) = 8
    /\ Len(cycles[1]) = 2

\* an edge whose fill-left id the style table does not hold
UnknownFillLeft(piece) ==
    piece.fill_left # NoStyle /\ piece.fill_left \notin domshape.fill_styles

\* C3: in a non-mask conversion, an edge whose fill-left id is absent from
\* the style table puts no segment into any fill group under that id, and
\* the conversion does not raise on the lookup of a fill.
C3_UnknownFillDemoted ==
    ~mask =>
        \A i \in 1..edge_i :
            UnknownFillLeft(domshape.edges[i]) =>
                /\ domshape.edges[i].fill_left \notin DOMAIN shape.fills.map
                /\ shape_err.at # "require_fill"

\* C4: once the cycle search for a fill id has ended with segments in no
\* cycle, a warning naming the fill id and the number of these segments has
\* been reported.
C4_CoverageWarning ==
    \A k \in 1..fill_i :
        Group(k).vertices \ InCycles(k) # {} =>
            \E i \in 1..Len(warned) :
                /\ warned[i].style = shape.fills.keys[k]
                /\ warned[i].count = Cardinality(Group(k).vertices \ InCycles(k))

(***************************************************************************)
(* Properties of the number codec (checked under SpecNumber)               *)
(***************************************************************************)
HexDigitChars == {"0", "1", "2", "3", "4", "5", "6", "7", "8", "9",
                  "A", "B", "C", "D", "E", "F"}

\* the integer and fraction digits of a literal "#I.F"
IntDigits(s) == SubSeq(s, 2, RunLen(s, 2, HexDigitChars) + 1)
FracDigits(s) == SubSeq(s, RunLen(s, 2, HexDigitChars) + 3, Len(s))

\* s is '#' H{1,6} '.' H{1,2} over the hex digits
IsHexLiteral(s) ==
    /\ Len(s) >= 4 /\ s[1] = "#"
    /\ LET n == RunLen(s, 2, HexDigitChars)
       IN /\ n \in 1..6
          /\ n + 2 <= Len(s) /\ s[n + 2] = "."
          /\ Len(s) - (n + 2) \in 1..2
          /\ \A i \in (n + 3)..Len(s) : s[i] \in HexDigitChars

\* s is -?\d+(\.\d+)?
IsDecimalLiteral(s) ==
    LET j == IF Len(s) > 0 /\ s[1] = "-" THEN 2 ELSE 1
        n == RunLen(s, j, DigitChars)
    IN /\ n > 0
       /\ \/ j + n = Len(s) + 1
          \/ /\ j + n < Len(s) /\ s[j + n] = "."
             /\ RunLen(s, j + n + 1, DigitChars) = Len(s) - (j + n)

\* value of a run of hex digits
RECURSIVE HexNum(_)
HexNum(s) ==
    IF Len(s) = 0 THEN 0 ELSE 16 * HexNum(SubSeq(s, 1, Len(s) - 1)) + HexVal[s[Len(s)]]

\* the fixed-point reading of "#I.F": I is a 24-bit two's-complement integer
\* part and F the leading digits of an 8-bit fraction; in units of 1/256
FixedPoint(s) ==
    LET i == HexNum(IntDigits(s))
        f == HexNum(FracDigits(s)) * (IF Len(FracDigits(s)) = 1 THEN 16 ELSE 1)
    IN (IF i >= 8388608 THEN i - 16777216 ELSE i) * 256 + f

\* bit 31 of the padded pattern: the first of six integer digits is 8 or more
TopBitSet(s) == Len(IntDigits(s)) = 6 /\ HexVal[IntDigits(s)[1]] >= 8

\* C8 as stated: #004000.00 decodes to 50.0 and #000000.00 decodes to 0.
C8_DecodesTo50 ==
    num_pc = "parsed" =>
        /\ num_in = Hex004000 => num_out = <<Ok(<<50, 1>>)>>
        /\ num_in = Hex000000 => num_out = <<Ok(<<0, 1>>)>>

\* C8 as amended: #004000.00 decodes to 819.2 (0x00400000 / 256 / 20 = 4096/5)
\* and #000000.00 decodes to 0.
C8_DecodesTo819 ==
    num_pc = "parsed" =>
        /\ num_in = Hex004000 => num_out = <<Ok(<<4096, 5>>)>>
        /\ num_in = Hex000000 => num_out = <<Ok(<<0, 1>>)>>

C8_Witness == num_pc = "parsed" /\ num_in = Hex004000 /\ Len(num_out) = 1

\* C9: a literal #I.F with 1-6 integer and 1-2 fraction hex digits decodes to
\* v/256/20, v the signed 32-bit value of I left-padded to 6 digits followed
\* by F right-padded to 2; the result is negative exactly when bit 31 is set.
C9_HexFixedPoint ==
    (num_pc = "parsed" /\ IsHexLiteral(num_in)) =>
        /\ num_tokens = <<num_in>>
        /\ num_out = <<Ok(Rat(FixedPoint(num_in), 256 * 20))>>
        /\ (num_out[1].val[1] < 0) <=> TopBitSet(num_in)

\* a short literal with the top bit clear and a full-width one with it set
C9_Witness ==
    /\ num_pc = "parsed" /\ IsHexLiteral(num_in)
    /\ Len(IntDigits(num_in)) = 6 /\ Len(FracDigits(num_in)) = 1
    /\ TopBitSet(num_in) /\ num_out[1].val[1] < 0

\* C10 as stated: a numeric literal that matches neither the decimal grammar
\* nor '#' H{1,6} '.' H{1,2} is not skipped or split by the tokenizer and
\* its decoding raises an error.
C10_MalformedNumberRaises ==
    (/\ num_pc = "parsed"
     /\ num_in[1] \in DigitChars \cup {"#", "-"}
     /\ ~IsHexLiteral(num_in) /\ ~IsDecimalLiteral(num_in)) =>
        /\ num_tokens = <<num_in>>
        /\ ~num_out[1].ok

(***************************************************************************)
(* Properties of edge_format_to_point_lists (checked under SpecEdge)       *)
(***************************************************************************)
Half == <<1, 2>>
Zero == <<0, 1>>

\* C5 as stated: "!0 0|10 0|10 10|0 10!0 0" gives exactly one segment, whose
\* first point equals its last point.
C5_OneClosedSegment ==
    (edge_pc = "done" /\ edges = EdgeSquare) =>
        /\ Len(yielded) = 1
        /\ yielded[1].point_list[1] =
               yielded[1].point_list[Len(yielded[1].point_list)]

\* C5 as amended: that input gives exactly two segments (one at the closing
\* moveto, one at the end of the string), and the first one runs from (0, 0)
\* to (0, 0.5): its first point differs from its last point.
C5_TwoSegmentsFirstOpen ==
    (edge_pc = "done" /\ edges = EdgeSquare) =>
        /\ Len(yielded) = 2
        /\ yielded[1].point_list[1] = PlainEntry(<<Zero, Zero>>)
        /\ yielded[1].point_list[Len(yielded[1].point_list)] = PlainEntry(<<Zero, Half>>)

C5_Witness == edge_pc = "done" /\ edges = EdgeSquare /\ Len(yielded) > 0

\* b begins with all the entries of a
StartsWith(b, a) == Len(b) >= Len(a) /\ SubSeq(b, 1, Len(a)) = a

\* C6 as stated: the segment emitted after a moveto to a different point
\* holds only entries appended after that moveto, none of those of the
\* segment emitted at the moveto.
C6_SegmentStartsAfresh ==
    \A k \in 1..(Len(yielded) - 1) :
        yielded[k].point_list # <<>> =>
            ~StartsWith(yielded[k + 1].point_list, yielded[k].point_list)

\* the tokens end inside a command: the last command character is followed
\* by fewer numbers than the command takes (2, or 4 for a quadto)
LastCommand(toks) ==
    CHOOSE i \in 1..Len(toks) :
        /\ toks[i][1] \in CommandChars
        /\ \A j \in (i + 1)..Len(toks) : toks[j][1] \notin CommandChars

EndsMidCommand(toks) ==
    /\ \E i \in 1..Len(toks) : toks[i][1] \in CommandChars
    /\ Len(toks) - LastCommand(toks) <
           (IF toks[LastCommand(toks)][1] \in {"[", "]"} THEN 4 ELSE 2)

\* C7 as stated: a token stream that does not begin with a moveto, or that
\* ends in the middle of a command, makes the conversion fail with an error.
C7_TruncatedStreamRaises ==
    (/\ edge_pc \in {"done", "raised"}
     /\ Len(tokens) > 0
     /\ tokens[1] # <<"!">> \/ EndsMidCommand(tokens)) =>
        edge_pc = "raised"

\* C11 as stated: every segment the generator yields holds at least one
\* entry, and its first entry is a plain point.
C11_SegmentsNonEmpty ==
    \A k \in 1..Len(yielded) :
        /\ Len(yielded[k].point_list) >= 1
        /\ ~yielded[k].point_list[1].ctrl

(***************************************************************************)
(* Properties of PathGraph and ShapeGraph (checked under Spec)             *)
(***************************************************************************)
\* every PathGraph the ShapeGraph holds
AllGraphs ==
    {shape.fills.map[id] : id \in DOMAIN shape.fills.map}
    \cup {shape.strokes.map[id] : id \in DOMAIN shape.strokes.map}

\* C12: in every PathGraph, after any number of add calls, B is among
\* paths[A] exactly when A and B are added segments and A's last point is
\* B's first point; paths holds nothing but added segments.
C12_AdjacencyExact ==
    \A g \in AllGraphs :
        /\ \A A \in g.vertices, B \in g.vertices :
            (B \in DGet(g.paths, A)) <=> (A[Len(A)] = B[1])
        /\ \A A \in DOMAIN g.paths : A \in g.vertices /\ g.paths[A] \subseteq g.vertices

\* the triangle and the closed curve are all added: the curve follows
\* itself, and the side that ends at its point is followed by two segments
C12_Witness ==
    /\ domshape \in OrderDocs
    /\ edge_i = 4
    /\ <<PA, Ctl(5, 30), PA>> \in shape.fills.map["1"].paths[<<PA, Ctl(5, 30), PA>>]
    /\ Cardinality(shape.fills.map["1"].paths[<<PC, PA>>]) = 2

\* the edges add_edge has been called with so far
Added ==
    {domshape.edges[i] : i \in {j \in 1..edge_i : mask \/ Visible(domshape.edges[j])}}

\* every style id an edge of the DOMShape carries on some side
StyleIds ==
    UNION {{domshape.edges[i].fill_left, domshape.edges[i].fill_right,
            domshape.edges[i].stroke} : i \in 1..Len(domshape.edges)} \ {NoStyle}

\* the segments a fill id is due: as given from its left edges, reversed from
\* its right edges
FillSegments(id) ==
    {p.path : p \in {e \in Added : e.fill_left = id}}
    \cup {Reverse(p.path) : p \in {e \in Added : e.fill_right = id}}

\* C13: the group of every fill id holds exactly the segments of the edges
\* added with that id on the left, as given, and of the edges added with it
\* on the right, reversed; an id no added edge carries has no group.
C13_AddEdgeLeftRight ==
    \A id \in StyleIds \cup DOMAIN shape.fills.map :
        IF id \in DOMAIN shape.fills.map
        THEN shape.fills.map[id].vertices = FillSegments(id)
        ELSE FillSegments(id) = {}

\* one edge with both fill sides: as given under "1", reversed under "2"
C13_Witness ==
    /\ edge_i = 1
    /\ domshape.edges[1] = Piece(<<PA, PB>>, "1", "2", NoStyle)
    /\ shape.fills.map["1"].vertices = {<<PA, PB>>}
    /\ shape.fills.map["2"].vertices = {<<PB, PA>>}

\* the segments a stroke id is due
StrokeSegments(id) == {p.path : p \in {e \in Added : e.stroke = id}}

\* C14: every stroke path emitted is the segments added with its stroke id,
\* each as given and each a subpath of its own, in some order; when the
\* conversion is done every stroke id an added edge carries has its path.
C14_StrokesAsGiven ==
    /\ \A i \in 1..Len(stroke_paths) :
        \E q \in Orders(StrokeSegments(stroke_paths[i].style)) :
            stroke_paths[i].d = JoinPaths(q)
    /\ shape_pc = "done" =>
        {stroke_paths[i].style : i \in 1..Len(stroke_paths)} =
            {id \in StyleIds : StrokeSegments(id) # {}}

\* a stroke of two segments is out, one of them an open line on no cycle
C14_Witness ==
    /\ shape_pc = "done"
    /\ Len(stroke_paths) = 1
    /\ StrokeSegments(stroke_paths[1].style) = {<<PA, PB>>, <<PA, Ctl(5, 30), PA>>}

(***************************************************************************)
(* Properties of single calls (checked under SpecCall)                     *)
(***************************************************************************)
\* entry i of a point list begins a piece: a control point, or a plain point
\* that is not the destination of a curve
StartsPiece(pl, i) == pl[i].ctrl \/ ~pl[i - 1].ctrl
KindAt(pl, i) == IF pl[i].ctrl THEN "Q" ELSE "L"
\* the kind of the piece that ends at entry i - 1; "M" for the first point
KindBefore(pl, i) ==
    IF i = 2 THEN "M"
    ELSE IF pl[i - 2].ctrl THEN "Q"
    ELSE "L"

\* what entry i puts out: its command letter when it begins a piece of
\* another kind than the piece before, then its point
Emitted(pl, i) ==
    (IF StartsPiece(pl, i) /\ KindAt(pl, i) # KindBefore(pl, i)
     THEN <<SvgCommand(KindAt(pl, i))>> ELSE <<>>)
    \o <<SvgPoint(pl[i])>>

RECURSIVE EmittedFrom(_, _)
EmittedFrom(pl, i) == IF i > Len(pl) THEN <<>> ELSE Emitted(pl, i) \o EmittedFrom(pl, i + 1)

\* C15: path_to_svg_format gives "M" and the first point, then every entry
\* in order, with a command letter exactly before a piece whose kind differs
\* from the piece before; [A, B], [A, (C,), B] and two lines in a row give
\* "M A L B", "M A Q C B" and "M A L B A".
C15_SvgFormat ==
    (fn = "path_to_svg_format" /\ ret.done) =>
        /\ ret.val = <<SvgCommand("M"), SvgPoint(args[1])>> \o EmittedFrom(args, 2)
        /\ args = <<PA, PB>> =>
            ret.val = <<SvgCommand("M"), SvgPoint(PA), SvgCommand("L"), SvgPoint(PB)>>
        /\ args = <<PA, Ctl(5, 30), PB>> =>
            ret.val = <<SvgCommand("M"), SvgPoint(PA), SvgCommand("Q"),
                        SvgPoint(Ctl(5, 30)), SvgPoint(PB)>>
        /\ args = <<PA, PB, PA>> =>
            ret.val = <<SvgCommand("M"), SvgPoint(PA), SvgCommand("L"), SvgPoint(PB),
                        SvgPoint(PA)>>

\* two lines in a row have been formatted
C15_Witness ==
    fn = "path_to_svg_format" /\ ret.done /\ args = <<PA, PB, PA>> /\ Len(ret.val) = 5

\* C18: a segment reversed twice is the segment: the same entries in the
\* same order with the same control-point markings.
C18_ReverseTwice ==
    (fn = "reverse" /\ ret.done) => ret.val = args

\* a segment with a curve and a line, not its own reversal, reversed twice
C18_Witness ==
    /\ fn = "reverse" /\ ret.done
    /\ args = <<PA, Ctl(5, 30), PB, PA>>
    /\ Reverse(args) # args

\* the control point lies outside the box of the two endpoints
ControlOutside(p1, control, p2) ==
    \E k \in {1, 2} :
        \/ RLess(control[k], RMin(p1[k], p2[k]))
        \/ RLess(RMax(p1[k], p2[k]), control[k])

\* C19 as stated: for a curve whose control point lies outside the box of
\* its endpoints, either copy of quadratic_bounding_box returns a box that
\* is not the box of the two endpoints alone.
C19_ControlExtendsBox ==
    (/\ fn \in {"util.quadratic_bounding_box", "edge.quadratic_bounding_box"}
     /\ ret.done
     /\ ControlOutside(args[1], args[2], args[3])) =>
        ret.val # line_bounding_box(args[1], args[3])

\* the component-wise union of two boxes
Union(a, b) ==
    <<RMin(a[1], b[1]), RMin(a[2], b[2]), RMax(a[3], b[3]), RMax(a[4], b[4])>>

\* C20: merge_bounding_boxes returns the other box when one is None, and
\* otherwise the minimum of the mins and the maximum of the maxes; the merge
\* is commutative, associative and idempotent.
C20_MergeAlgebra ==
    (fn = "merge_bounding_boxes" /\ ret.done) =>
        /\ args[1] = None => ret.val.ab = args[2]
        /\ args[2] = None => ret.val.ab = args[1]
        /\ (args[1] # None /\ args[2] # None) => ret.val.ab = Union(args[1], args[2])
        /\ ret.val.ab = ret.val.ba
        /\ ret.val.ab_c = ret.val.a_bc
        /\ ret.val.aa = args[1]

\* three boxes, none of them inside another, have been merged
C20_Witness ==
    /\ fn = "merge_bounding_boxes" /\ ret.done
    /\ args = <<Box(0, 0, 10, 10), Box(5, -5, 20, 5), Box(-3, 2, 4, 30)>>
    /\ ret.val.ab_c = Box(-3, -5, 20, 30)

(***************************************************************************)
(* Properties of the emitted fill paths and of termination                 *)
(***************************************************************************)
\* the number of "M" tokens of a path string
MCount(d) == Cardinality({i \in 1..Len(d) : d[i].cmd = "M"})

\* the length of the strings of the cycles before the j-th
RECURSIVE Offset(_, _)
Offset(cs, j) ==
    IF j = 1 THEN 0
    ELSE Offset(cs, j - 1) + Len(path_to_svg_format(Extend(cs[j - 1])))

\* d is the strings of the cycles one after the other
Concatenated(d, cs) ==
    /\ Len(d) = Offset(cs, Len(cs) + 1)
    /\ \A j \in 1..Len(cs) :
        SubSeq(d, Offset(cs, j) + 1, Offset(cs, j + 1)) = path_to_svg_format(Extend(cs[j]))

\* the fill paths emitted for a fill id
PathsOf(id) == {i \in 1..Len(fill_paths) : fill_paths[i].style = id}

\* the lookup of this fill id's style raised
RaisedAt(id) == shape_err.at = "require_fill" /\ shape_err.key = id

SearchMeasure == Cardinality(FillGraph.vertices \ DOMAIN parents) + Cardinality(frontier)

\* a pass of get_cycle's loop puts into its pending set only segments that
\* had no parent, and the measure goes down
SearchShrinks ==
    (shape_pc = "cycle" /\ shape_pc' = "cycle") =>
        /\ (frontier' \ frontier) \cap DOMAIN parents = {}
        /\ SearchMeasure' < SearchMeasure

\* a pass of covering_cycles' loop takes at least one segment out of pending
CoverShrinks ==
    (shape_pc = "cover" /\ shape_pc' \in {"cover", "cycle"}) =>
        /\ pending' \subseteq pending
        /\ pending' # pending

\* a yielded cycle has no more segments than the graph
WalkBounded ==
    \A k \in 1..Len(cycles) : \A i \in 1..Len(cycles[k]) :
        Len(cycles[k][i]) <= Cardinality(shape.fills.map[shape.fills.keys[k]].vertices)

Searching == shape_pc \in {"cover", "cycle"}
Exhausted == shape_pc = "cover" /\ pending = {}

\* C17: every pass of get_cycle's loop enqueues only segments not enqueued
\* before, every yielded cycle is no longer than the number of segments,
\* every pass of covering_cycles' loop shrinks pending, and a search that
\* has started comes to the point where pending is empty.
C17_CoveringCyclesTerminates ==
    /\ [][SearchShrinks /\ CoverShrinks]_vars
    /\ []WalkBounded
    /\ Searching ~> Exhausted

\* the search over the two outlines through the same two points has ended
C17_Witness ==
    /\ domshape = Lens
    /\ shape_pc = "done"
    /\ Len(cycles) = 1
    /\ Len(cycles[1]) >= 2

(***************************************************************************)
(* The box shape_graph_to_svg returns                                      *)
(***************************************************************************)
\* the least and the greatest of a set of numbers
Least(S) == CHOOSE x \in S : \A y \in S : ~RLess(y, x)
Greatest(S) == CHOOSE x \in S : \A y \in S : ~RLess(x, y)

\* the smallest box around a set of boxes: None when there is none
Around(boxes) ==
    IF boxes = {} THEN None
    ELSE <<Least({b[1] : b \in boxes}), Least({b[2] : b \in boxes}),
           Greatest({b[3] : b \in boxes}), Greatest({b[4] : b \in boxes})>>

\* box is wider than inner by half of width on each of the four sides
WiderByHalf(box, inner, width) ==
    /\ RAdd(box[1], RDiv(width, RInt(2))) = inner[1]
    /\ RAdd(box[2], RDiv(width, RInt(2))) = inner[2]
    /\ RSub(box[3], RDiv(width, RInt(2))) = inner[3]
    /\ RSub(box[4], RDiv(width, RInt(2))) = inner[4]

\* the boxes of the subpaths of the emitted fill paths
FillBoxes ==
    UNION {{path_to_bounding_box(Extend(cycles[k][j])) : j \in 1..Len(cycles[k])} :
            k \in 1..Len(cycles)}

\* the box around the subpaths of a stroke id
StrokeInner(id) == Around({path_to_bounding_box(pl) : pl \in shape.strokes.map[id].vertices})

\* the boxes of the stroke ids, each as wide as its stroke asks
StrokeBoxes ==
    {expanding_bounding_box(StrokeInner(id), StrokeWidth(id)) : id \in Range(shape.strokes.keys)}

\* C21: the box shape_graph_to_svg returns is the box around the boxes of
\* all emitted fill subpaths and, for each stroke id, the box around its
\* subpaths made wider by half the stroke's width on each side; a fill id
\* with no cycle adds nothing.
C21_BoxIsUnion ==
    shape_pc = "done" =>
        /\ bbox = Around(FillBoxes \cup StrokeBoxes)
        /\ \A id \in Range(shape.strokes.keys) :
            \E b \in StrokeBoxes : WiderByHalf(b, StrokeInner(id), StrokeWidth(id))
        /\ \A k \in 1..Len(cycles) :
            cycles[k] = <<>> => PathsOf(shape.fills.keys[k]) = {}

\* a shape with a fill path, a stroke path and a fill id without a cycle is out
C21_Witness ==
    /\ shape_pc = "done"
    /\ fill_paths # <<>>
    /\ stroke_paths # <<>>
    /\ \E k \in 1..Len(cycles) : cycles[k] = <<>>

(***************************************************************************)
(* Two calls with alternating steps (checked under SpecPair)               *)
(***************************************************************************)
\* the test of xfl_domshape_to_visible_edges in a call on d
Shows(d, piece) ==
    \/ piece.fill_left \in d.fill_styles
    \/ piece.fill_right \in d.fill_styles
    \/ piece.stroke \in DOMAIN d.stroke_styles

\* the ShapeGraph a call on d alone holds after the first n pieces
RECURSIVE Built(_, _, _)
Built(d, m, n) ==
    IF n = 0 THEN EmptyShape
    ELSE IF m \/ Shows(d, d.edges[n])
    THEN add_edge(Built(d, m, n - 1), d.edges[n].path, d.edges[n].fill_left,
                  d.edges[n].fill_right, d.edges[n].stroke)
    ELSE Built(d, m, n - 1)

\* the segments of a call's own shape, either way round
Own(f) ==
    UNION {{f.domshape.edges[i].path, Reverse(f.domshape.edges[i].path)} :
            i \in 1..Len(f.domshape.edges)}

\* the graph of a call is the one its own pieces build, and its pending
\* sets, parent map and cycles hold its own segments only
Local(f) ==
    /\ f.shape = Built(f.domshape, f.mask, f.edge_i)
    /\ f.pending \subseteq Own(f)
    /\ f.frontier \subseteq Own(f)
    /\ DOMAIN f.parents \subseteq Own(f)
    /\ \A v \in DOMAIN f.parents : f.parents[v] \in Own(f)
    /\ \A k \in 1..Len(f.cycles) : \A i \in 1..Len(f.cycles[k]) :
        Range(f.cycles[k][i]) \subseteq Own(f)

\* a step of the running call leaves the waiting call's state as it is, and
\* a change of the running call hands both states over unchanged
Untouched ==
    \/ running' = running /\ parked' = parked
    \/ running' # running /\ parked' = Frame /\ Frame' = parked

\* C22: with the steps of two calls alternating in any way, each call's
\* graph is the one its own shape builds, its pending sets, parent map and
\* cycles hold only its own segments, and no step of one call changes
\* anything of the other: each call runs as it runs alone.
C22_CallsIndependent ==
    /\ [](Local(Frame) /\ Local(parked))
    /\ [][Untouched]_vars

\* both calls are in the middle of a cycle search, on different shapes
C22_Witness ==
    /\ running = 2
    /\ shape_pc = "cycle" /\ parked.shape_pc = "cycle"
    /\ domshape # parked.domshape
    /\ frontier # {} /\ parked.frontier # {}

(***************************************************************************)
(* The select marker (checked under SpecEdge)                              *)
(***************************************************************************)
\* a select marker starts at i: S and a digit from 1 to 7
MarkerAt(s, i) == i < Len(s) /\ s[i] = "S" /\ s[i + 1] \in {"1", "2", "3", "4", "5", "6", "7"}

\* the string from i on with its select markers taken out
RECURSIVE Unmarked(_, _)
Unmarked(s, i) ==
    IF i > Len(s) THEN <<>>
    ELSE IF MarkerAt(s, i) THEN Unmarked(s, i + 2)
    ELSE <<s[i]>> \o Unmarked(s, i + 1)

\* C23: the tokens of an edge string with a select marker are the tokens
\* of the string without the marker.
C23_SelectMarkerSkipped ==
    (edge_pc # "start" /\ \E i \in 1..Len(edges) : MarkerAt(edges, i)) =>
        tokens = EDGE_TOKENIZER(Unmarked(edges, 1))

(***************************************************************************)
(* The cycles of two calls on the same shape (checked under SpecTwice)     *)
(***************************************************************************)
\* as many segments of V start at a point as end there: V is a union of
\* simple cycles with no segment in two of them
Balanced(V) ==
    \A p \in {v[1] : v \in V} \cup {v[Len(v)] : v \in V} :
        Cardinality({v \in V : v[1] = p}) = Cardinality({v \in V : v[Len(v)] = p})

\* the yielded cycles of a fill id, each as the set of its segments
CycleSets(cs) == {Range(cs[i]) : i \in 1..Len(cs)}

\* the search for fill cycles of a call is over
FillsOver(f) == f.shape_pc \in {"strokes", "done"}

\* C24: two calls on the same shape, whatever set.pop() gave each of them,
\* end with the same set of cycles for every fill id whose segments
\* decompose into simple cycles.
C24_SameCyclesAnyPop ==
    (running = 2 /\ FillsOver(Frame) /\ FillsOver(parked)) =>
        \A k \in 1..Len(cycles) :
            Balanced(shape.fills.map[shape.fills.keys[k]].vertices) =>
                CycleSets(cycles[k]) = CycleSets(parked.cycles[k])

(***************************************************************************)
(* The shape of a yielded cycle (checked under Spec)                       *)
(***************************************************************************)
\* each segment of c ends where the next one starts, the last one where
\* the first one starts
ClosedLoop(c) ==
    \A i \in 1..Len(c) : c[i][Len(c[i])] = c[(i % Len(c)) + 1][1]

\* no segment is in c twice
NoRepeat(c) == \A i \in 1..Len(c) : \A j \in 1..Len(c) : c[i] = c[j] => i = j

\* the cycles yielded so far, of every fill id
Yielded == UNION {Range(cycles[k]) : k \in 1..Len(cycles)}

\* the step yields a cycle, and the root of the search is in it
YieldsWithRoot ==
    (shape_pc = "cycle" /\ cycles' # cycles) =>
        /\ Len(cycles'[Len(cycles)]) = Len(cycles[Len(cycles)]) + 1
        /\ root \in Range(cycles'[Len(cycles)][Len(cycles'[Len(cycles)])])

\* C25: every cycle covering_cycles yields is a closed loop in which no
\* segment occurs twice, and it holds the segment it was searched from.
C25_CyclesAreClosedLoops ==
    /\ [](\A c \in Yielded : Len(c) >= 1 /\ ClosedLoop(c) /\ NoRepeat(c))
    /\ [][YieldsWithRoot]_vars

\* a cycle of three segments and a cycle of one are out
C25_Witness ==
    /\ \E c \in Yielded : Len(c) >= 3
    /\ \E c \in Yielded : Len(c) = 1

(***************************************************************************)
(* The greedy joiner on the touching squares (checked under SpecCall)      *)
(***************************************************************************)
\* the sides a shape goes along, as segments
Sides(sh) == {<<sh[i], sh[i + 1]>> : i \in 1..(Len(sh) - 1)}

\* the point lists are the sides of the two touching squares, in some order
SquaresGiven(pls) ==
    /\ Len(pls) = Len(SquareOne) + Len(SquareTwo)
    /\ {pls[i][1] : i \in 1..Len(pls)} = Range(SquareOne) \cup Range(SquareTwo)
    /\ \A i \in 1..Len(pls) : pls[i][2] = "1"

\* C26: for the sides of the touching squares, point_lists_to_shapes
\* returns two shapes, one along the sides of each square, each side once.
C26_GreedyTwoSquares ==
    (fn = "point_lists_to_shapes" /\ ret.done /\ SquaresGiven(args)) =>
        /\ ret.val.err = ""
        /\ Len(ret.val.shapes["1"]) = 2
        /\ \A k \in 1..Len(ret.val.shapes["1"]) :
            Len(ret.val.shapes["1"][k]) = Len(SquareOne) + 1
        /\ {Sides(ret.val.shapes["1"][k]) : k \in 1..Len(ret.val.shapes["1"])}
            = {Range(SquareOne), Range(SquareTwo)}

(***************************************************************************)
(* The two copies of quadratic_bezier (checked under SpecCall)             *)
(***************************************************************************)
\* one coordinate of (1-t)^2*p1 + 2t(1-t)*p2 + t^2*p3
BezierAt(a, b, c, t) ==
    RAdd(RAdd(RMul(RMul(RSub(RInt(1), t), RSub(RInt(1), t)), a),
              RMul(RMul(RInt(2), RMul(t, RSub(RInt(1), t))), b)),
         RMul(RMul(t, t), c))

\* C27: edge.py's quadratic_bezier returns the point of the curve at t, as
\* util.py's does, and edge.py's quadratic_bounding_box returns the box
\* util.py's returns.
C27_BezierCopiesAgree ==
    /\ (fn = "quadratic_bezier" /\ ret.done) =>
        /\ ret.val.edge = <<BezierAt(args[1][1], args[2][1], args[3][1], args[4]),
                             BezierAt(args[1][2], args[2][2], args[3][2], args[4])>>
        /\ ret.val.edge = ret.val.util
    /\ (fn = "edge.quadratic_bounding_box" /\ ret.done) =>
        ret.val = quadratic_bounding_box_util(args[1], args[2], args[3])

(***************************************************************************)
(* The box emitted with a segment (checked under SpecEdge)                 *)
(***************************************************************************)
\* the point p lies in the box b = (min x, min y, max x, max y)
BoxHolds(b, p) ==
    /\ ~RLess(p[1], b[1]) /\ ~RLess(b[3], p[1])
    /\ ~RLess(p[2], b[2]) /\ ~RLess(b[4], p[2])

\* the plain points of a point list
PlainPoints(pl) == {pl[i].pt : i \in {j \in 1..Len(pl) : ~pl[j].ctrl}}

\* C28: the box emitted with a point list contains every plain point of
\* that point list, and it is absent only when the point list holds no
\* drawing piece.
C28_BoxOfEmittedSegment ==
    \A k \in 1..Len(yielded) :
        IF yielded[k].bounding_box = None
        THEN yielded[k].point_list = <<>>
        ELSE \A p \in PlainPoints(yielded[k].point_list) :
                 BoxHolds(yielded[k].bounding_box, p)

(***************************************************************************)
(* The box of a point list (checked under SpecCall)                        *)
(***************************************************************************)
\* the union of the boxes of the pieces of path from entry i on, the piece
\* at i starting at the point from, where the piece before it ended
RECURSIVE PieceBoxes(_, _, _, _)
PieceBoxes(path, i, from, box) ==
    IF i > Len(path) THEN box
    ELSE IF path[i].ctrl
    THEN IF i + 1 > Len(path) THEN box
         ELSE PieceBoxes(path, i + 2, path[i + 1].pt,
                         merge_bounding_boxes(box,
                             quadratic_bounding_box_util(from, path[i].pt, path[i + 1].pt)))
    ELSE PieceBoxes(path, i + 1, path[i].pt,
                    merge_bounding_boxes(box, line_bounding_box(from, path[i].pt)))

\* C29: path_to_bounding_box returns the union of the boxes of the pieces
\* of the point list, each piece taken from the point where the piece
\* before it ended.
C29_BoxFromTrueStart ==
    (fn = "path_to_bounding_box" /\ ret.done) =>
        ret.val = PieceBoxes(args, 2, args[1].pt, line_bounding_box(args[1].pt, args[1].pt))

(***************************************************************************)
(* Closed segments among the fill cycles (checked under Spec)              *)
(***************************************************************************)
\* the segment starts where it ends
ClosedSegment(s) == s[1] = s[Len(s)]

\* the segments of the k-th fill id
SegmentsOfFill(k) == shape.fills.map[shape.fills.keys[k]].vertices

\* another segment of the k-th fill id starts or ends where s does
SharesPoint(k, s) ==
    \E t \in SegmentsOfFill(k) \ {s} : t[1] = s[1] \/ t[Len(t)] = s[1]

\* C30: a closed segment is in no cycle but the one made of it alone, and
\* once covering_cycles is through with a fill id, that cycle is among the
\* cycles of the fill id for each of its closed segments.
C30_ClosedSegmentAlone ==
    \A k \in 1..Len(cycles) :
        /\ \A c \in Range(cycles[k]) :
               \A i \in 1..Len(c) : ClosedSegment(c[i]) => Len(c) = 1
        /\ k <= fill_i =>
               \A s \in SegmentsOfFill(k) : ClosedSegment(s) => <<s>> \in Range(cycles[k])

C30_Witness ==
    \E k \in 1..Len(cycles) :
        \E s \in SegmentsOfFill(k) :
            ClosedSegment(s) /\ SharesPoint(k, s) /\ <<s>> \in Range(cycles[k])

====
